---- MODULE Spec2Model ----
(***************************************************************************)
(* Model of the peer-to-peer synchronisation core of isometric-city:       *)
(* MultiplayerProvider (yjsProvider), the Y.js replicated document it      *)
(* drives, and the React context / modal that own a provider.              *)
(***************************************************************************)
EXTENDS Integers, Sequences, FiniteSets, TLC

VARIABLES
  localhost,          \* window.location.hostname === 'localhost', for every peer
  roomExists,         \* the room record is readable through /api/room
  clientID,           \* doc.clientID of each peer's document
  created,            \* the peer's MultiplayerProvider has been constructed
  destroyed,          \* provider.destroyed
  doc,                \* provider.doc
  lastAppliedIndex,   \* provider.lastAppliedIndex
  initialGameState,   \* provider.initialGameState ("none" for null/undefined)
  broadcastChannel,   \* provider.broadcastChannel is not null
  useLocalFallback,   \* provider.useLocalFallback
  updateHandler,      \* the doc.on('update') forwarder is registered
  stateRequestTimer,  \* the delayed loopback state-request is pending
  connectedPeers,     \* provider.connectedPeers
  peerConnections,    \* provider.peerConnections: per remote peer, "none" or the state
  dataChannels,       \* provider.dataChannels: per remote peer, "none" or readyState
  pollingInterval,    \* provider.pollingInterval is not null
  onActionLog,        \* the GameActions handed to options.onAction, in order
  stateReceived,      \* the payloads handed to options.onStateReceived, in order
  connectionChange,   \* peerCount of the last options.onConnectionChange call, 0 for none
  playersChange,      \* roster (ids) of the last options.onPlayersChange call
  channelQueue,       \* frames in flight on the direct channel from p to q
  broadcastQueue,     \* BroadcastChannel messages posted by p, not yet handled by q
  ctxPc,              \* where the context's createRoom / joinRoom call of the peer is
  connectionState,    \* context state connectionState
  role,               \* context state role
  roomCode,           \* context state roomCode is not null
  players,            \* context state players (their ids)
  error,              \* context state error is not null
  initialState,       \* context state initialState ("none" for null)
  providerRef,        \* providerRef.current is not null
  joinAttempt,        \* joinRoom's attempt counter
  leftRoom,           \* leaveRoom() has run since the context's last createRoom / joinRoom call
  waitingForState,    \* CoopModal state waitingForState
  waitTimer,          \* CoopModal's 60 s timeout is pending
  startPollingPc,     \* where the provider's startPolling() is
  lookupCount,        \* startPolling's loop counter i
  pollFetches,        \* the cursors of the pollSignals calls awaiting their response
  signalTasks,        \* pollSignals calls handling the signals of a response
  announcePc,         \* where the guest's announcePresence() is
  gatherTimers,       \* pending 3 s gathering timeouts
  lastSeenSignals,    \* provider.lastSeenSignals, a position in the relay's log
  relay,              \* the signals posted to /api/signal, in order
  pendingIceCandidates, \* provider.pendingIceCandidates: per sender, the buffer
  appliedCandidates,  \* per remote peer, the candidates given to pc.addIceCandidate
  pcCreated,          \* per remote peer, how many RTCPeerConnections were created
  negotiationErrors,  \* the senders whose offer or answer setRemoteDescription refused
  uncaught,           \* an exception has left one of the provider's event handlers
  awareness,          \* provider.awareness.getLocalState() (NullState for null)
  outgoingIceCandidates, \* provider.outgoingIceCandidates: per remote peer, the buffer
  gathered,           \* per remote peer, the candidates its Connection has gathered
  detached,           \* per remote peer, the Connection dropped from the table unclosed
  initialStateLoadedRef, \* useMultiplayerSync's initialStateLoadedRef.current
  loadedStates,       \* the states game.loadState accepted from the hook's effect, in order
  orphanTimers,       \* running polling intervals whose handle this.pollingInterval no longer holds
  secondLoop,         \* where a startPolling begun during the provider's first one is
  shareOpen,          \* ShareModal's prop open
  isCreating,         \* ShareModal's state isCreating
  createCalls         \* how many createRoom calls ShareModal's effect has issued

(***************************************************************************)
(* Peers, identities and bounds                                            *)
(***************************************************************************)

\* The peers of one room: the host and two guests.
Peers == {"H", "G1", "G2"}

\* The peers that take part in a run of Spec, which follows the handshake
\* step by step: the host and the first guest.
PairPeers == {"H", "G1"}

Host == "H"

Guests == Peers \ {Host}

\* options.isHost of peer p.
isHost(p) == p = Host

\* How many dispatchAction calls one run makes, over all peers.
MaxOps == 3

\* How many local edits (appends, metadata sets) one run of SpecMerge makes.
MaxEdits == 2

\* GameActionInput.type values a run dispatches.
ActionTypes == {"place"}

\* The keys the host's constructor writes into the meta map.
MetaKeys == {"hostId", "createdAt", "cityName", "roomCode"}

\* The keys and values setMeta is called with in a run.
SetMetaKeys == {"cityName"}

SetMetaValues == {"v1", "v2"}

\* The shared types of the document: the operations array and, per key, the
\* chain of items of the meta map.
Parents == {"operations"} \cup MetaKeys

\* The id of no item (a null origin). Client ids start at 1.
NoId == <<0, 0>>

(***************************************************************************)
(* Y.js document: items, integration (YATA), updates                       *)
(***************************************************************************)

Range(s) == {s[i] : i \in 1..Len(s)}

\* new Y.Doc(): no items, nothing pending.
EmptyDoc == [lists |-> [k \in Parents |-> <<>>], pending |-> {}]

\* Every item integrated into the document.
Items(d) == UNION {Range(d.lists[k]) : k \in Parents}

\* The state vector entry of client c: the next clock the document expects.
NextClock(d, c) == Cardinality({x \in Items(d) : x.id[1] = c})

\* this.operationsArray.toArray(): the GameActions of the log, in order.
OpsOf(d) == [i \in 1..Len(d.lists["operations"]) |-> d.lists["operations"][i].content]

\* this.metaMap.get(key): the content of the rightmost item of the key's chain
\* (every other item of the chain is deleted by Y.js).
MetaOf(d) ==
  [k \in MetaKeys |->
     IF Len(d.lists[k]) = 0 THEN "undefined"
     ELSE d.lists[k][Len(d.lists[k])].content.value]

\* Position of the item with id i in list s, 0 for none.
IndexOfId(s, i) ==
  IF \E n \in 1..Len(s) : s[n].id = i
  THEN CHOOSE n \in 1..Len(s) : s[n].id = i
  ELSE 0

InsertAfter(s, n, x) ==
  [i \in 1..(Len(s) + 1) |->
     IF i <= n THEN s[i] ELSE IF i = n + 1 THEN x ELSE s[i - 1]]

\* Item.integrate's conflict scan (all right origins are null: every local
\* insert of this program is a push or a map set). o is the item examined,
\* left the position chosen so far.
RECURSIVE YataScan(_, _, _, _, _, _)
YataScan(s, x, o, left, before, conflicting) ==
  IF o > Len(s) THEN left
  ELSE
    LET it == s[o]
        before2 == before \cup {it.id}
        conf2 == conflicting \cup {it.id}
    IN IF it.origin = x.origin
       THEN IF it.id[1] < x.id[1]
            THEN YataScan(s, x, o + 1, o, before2, {})
            ELSE left
       ELSE IF it.origin # NoId /\ it.origin \in before2
            THEN IF it.origin \notin conf2
                 THEN YataScan(s, x, o + 1, o, before2, {})
                 ELSE YataScan(s, x, o + 1, left, before2, conf2)
            ELSE left

\* A mutant of the scan: a new item always goes to the end of the list.
IntegrateAppend(s, x) == Append(s, x)

\* Item.integrate: x is placed after its origin, past the conflicting items
\* of smaller client id and their descendants.
Integrate(s, x) ==
  LET l == IndexOfId(s, x.origin)
  IN InsertAfter(s, YataScan(s, x, l + 1, l, {}, {}), x)

\* An item can be integrated once its origin and every earlier item of its
\* client are in the document.
Integrable(d, x) ==
  /\ x.id[2] = NextClock(d, x.id[1])
  /\ (x.origin = NoId \/ \E y \in Items(d) : y.id = x.origin)

IdLess(a, b) == a[1] < b[1] \/ (a[1] = b[1] /\ a[2] < b[2])

\* Integrates what can be integrated of todo, smallest id first; the items
\* with a missing dependency stay pending.
RECURSIVE IntegrateAll(_, _)
IntegrateAll(d, todo) ==
  LET ready == {x \in todo : Integrable(d, x)}
  IN IF ready = {} THEN [d EXCEPT !.pending = todo]
     ELSE LET x == CHOOSE y \in ready : \A z \in ready : z = y \/ IdLess(y.id, z.id)
          IN IntegrateAll(
               [d EXCEPT !.lists[x.parent] = Integrate(@, x)],
               todo \ {x})

\* Y.applyUpdate(doc, update): the update's items the document does not hold
\* yet are integrated, together with the items left pending before.
ApplyUpdate(d, update) ==
  IntegrateAll(d, {x \in update \cup d.pending : x.id[2] >= NextClock(d, x.id[1])})

\* Y.encodeStateAsUpdate(doc): every item of the document, pending ones too.
EncodeStateAsUpdate(d) == Items(d) \cup d.pending

\* The item a local insert by client c creates at the end of list k.
NewItem(d, c, k, content) ==
  [id |-> <<c, NextClock(d, c)>>,
   origin |-> IF Len(d.lists[k]) = 0 THEN NoId ELSE d.lists[k][Len(d.lists[k])].id,
   parent |-> k,
   content |-> content]

\* A local insert at the end of list k (Y.Array.push, Y.Map.set).
YInsert(d, c, k, content) ==
  [d EXCEPT !.lists[k] = Integrate(@, NewItem(d, c, k, content))]

\* this.operationsArray.push([fullAction]).
YPush(d, c, action) == YInsert(d, c, "operations", action)

\* this.metaMap.set(key, value).
YMapSet(d, c, key, value) == YInsert(d, c, key, [value |-> value])

(***************************************************************************)
(* MultiplayerProvider: helpers                                            *)
(***************************************************************************)

provVars ==
  <<localhost, roomExists, clientID, created, destroyed, doc, lastAppliedIndex,
    initialGameState, broadcastChannel, useLocalFallback, updateHandler,
    stateRequestTimer, connectedPeers, peerConnections, dataChannels,
    pollingInterval, onActionLog, stateReceived, connectionChange,
    playersChange, channelQueue, broadcastQueue>>

lifeVars ==
  <<startPollingPc, lookupCount, pollFetches, signalTasks, announcePc,
    gatherTimers, lastSeenSignals, relay>>

ctxVars ==
  <<ctxPc, connectionState, role, roomCode, players, error, initialState,
    providerRef, joinAttempt, leftRoom, waitingForState, waitTimer>>

negVars ==
  <<pendingIceCandidates, appliedCandidates, pcCreated, negotiationErrors,
    uncaught, outgoingIceCandidates, gathered, detached>>

\* The state of the hooks and components that use the context.
modalVars == <<shareOpen, isCreating, createCalls>>

hookVars == <<initialStateLoadedRef, loadedStates, modalVars>>

\* The interval timers whose handle the provider no longer holds, and the
\* second startPolling of a provider.
timerVars == <<orphanTimers, secondLoop>>

auxVars == <<negVars, awareness, hookVars, timerVars>>

\* The hook before its effect has run, nothing loaded, and the share dialog
\* closed.
HookBlank ==
  /\ initialStateLoadedRef = [p \in Peers |-> FALSE]
  /\ loadedStates = [p \in Peers |-> <<>>]
  /\ shareOpen = [p \in Peers |-> FALSE]
  /\ isCreating = [p \in Peers |-> FALSE]
  /\ createCalls = [p \in Peers |-> 0]

\* No startPolling besides the first has been started.
NoLoop == [pc |-> "none", count |-> 0]

\* Every interval started so far is held in this.pollingInterval or cleared.
TimerBlank ==
  /\ orphanTimers = [p \in Peers |-> 0]
  /\ secondLoop = [p \in Peers |-> NoLoop]

vars == <<provVars, lifeVars, ctxVars, auxVars>>

Pairs == Peers \X Peers

\* The operations of the log authored by peer p.
OwnOps(d, p) == {x \in Range(d.lists["operations"]) : x.content.playerId = p}

\* dispatchAction's fullAction: the input stamped with Date.now() and the
\* peer id. Successive clock readings of one peer are taken to differ.
FullAction(p, type, d) ==
  [type |-> type, playerId |-> p, timestamp |-> Cardinality(OwnOps(d, p)) + 1]

\* The document of a host after its constructor: the four meta entries.
HostMeta(c) ==
  YMapSet(YMapSet(YMapSet(YMapSet(EmptyDoc, c, "hostId", "H"),
                          c, "createdAt", "t0"),
                  c, "cityName", "city"),
          c, "roomCode", "room")

\* A mutant of the observer: it hands over every new entry, its own too.
OpsObserverAll(p, lai, before, after) ==
  IF Len(after.lists["operations"]) > Len(before.lists["operations"])
  THEN [lastAppliedIndex |-> Len(after.lists["operations"]),
        actions |-> SubSeq(OpsOf(after), lai + 1, Len(OpsOf(after)))]
  ELSE [lastAppliedIndex |-> lai, actions |-> <<>>]

\* A mutant of the observer: it runs on every transaction and hands over the
\* whole log.
OpsObserverReplay(p, lai, before, after) ==
  [lastAppliedIndex |-> Len(after.lists["operations"]),
   actions |-> SelectSeq(OpsOf(after), LAMBDA op : op.playerId # p)]

\* The operationsArray observer, run after a transaction that took the
\* document from before to after: the entries from the watermark on that
\* another peer authored are handed to onAction, and the watermark becomes
\* the length of the log.
OpsObserver(p, lai, before, after) ==
  IF Len(after.lists["operations"]) > Len(before.lists["operations"])
  THEN [lastAppliedIndex |-> Len(after.lists["operations"]),
        actions |-> SelectSeq(SubSeq(OpsOf(after), lai + 1, Len(OpsOf(after))),
                              LAMBDA op : op.playerId # p)]
  ELSE [lastAppliedIndex |-> lai, actions |-> <<>>]

\* A wire envelope: data is the update of a sync / update message, state the
\* payload of a state-sync.
\* awareness.getLocalState() of a provider without a presence record: null.
NullState == [player |-> "null", cursor |-> "null"]

Message(type, from, data, state) ==
  [type |-> type, from |-> from, data |-> data, state |-> state,
   awareness |-> NullState]

\* The awareness message of syncDocument: data is the local presence record.
AwarenessMessage(p, localState) ==
  [Message("awareness", p, {}, "none") EXCEPT !.awareness = localState]

\* broadcastChannel.postMessage by p: every other peer that holds an open
\* BroadcastChannel of the room gets the messages.
BroadcastPost(q0, p, msgs) ==
  [pr \in Pairs |->
     IF pr[1] = p /\ pr[2] # p /\ broadcastChannel[pr[2]]
     THEN q0[pr] \o msgs ELSE q0[pr]]

\* The order in which a roster lists the connected peers (the model keeps
\* the connected set without its order of insertion).
PeerOrder == <<"H", "G1", "G2">>

\* A mutant of notifyPlayersChange: the local player is pushed last.
RosterSelfLast(p, cp) == SelectSeq(PeerOrder, LAMBDA q : q \in cp) \o <<p>>

\* notifyPlayersChange's roster: the local player, then one placeholder
\* player for each connected peer.
Roster(p, cp) == <<p>> \o SelectSeq(PeerOrder, LAMBDA q : q \in cp)

\* channel.readyState === 'open'.
ReadyOpen(st) == st \in {"announced", "open"}

\* A mutant of the send loop: no look at channel.readyState.
ChannelSendAny(q0, p, msg) ==
  [pr \in Pairs |-> IF pr[1] = p /\ pr[2] # p THEN Append(q0[pr], msg) ELSE q0[pr]]

\* channel.send(...) on every data channel of p that is open.
ChannelSendAll(q0, p, msg) ==
  [pr \in Pairs |->
     IF pr[1] = p /\ ReadyOpen(dataChannels[p][pr[2]])
     THEN Append(q0[pr], msg) ELSE q0[pr]]

\* A relay signal; to is "all" when the message names no recipient, and
\* candidates is what payload.candidates holds ([] when there is none).
Signal(type, from, to, payload) ==
  [type |-> type, from |-> from, to |-> to, payload |-> payload, candidates |-> <<>>]

\* The bundled offer or answer of sendSignal: { sdp, candidates }.
Bundle(type, from, to, candidates) ==
  [Signal(type, from, to, "sdp") EXCEPT !.candidates = candidates]

\* A mutant of the state-request guard: the host replies whether or not it
\* holds a snapshot.
HasSnapshotAlways(p) == isHost(p)

\* A mutant of the state-request guard: whoever holds a snapshot replies.
HasSnapshotAnyRole(p) == initialGameState[p] # "none"

\* this.isHost && this.initialGameState: the guard of the reply to a
\* state-request.
HasSnapshot(p) == isHost(p) /\ initialGameState[p] # "none"

\* How many operations have been dispatched so far, over all peers.
TotalOps == Cardinality(UNION {OwnOps(doc[p], p) : p \in Peers})

(***************************************************************************)
(* MultiplayerProvider: construction and connect()                         *)
(***************************************************************************)

\* The local presence record the constructor sets: the provider's own player
\* and nothing else.
LocalState(p) == [player |-> p, cursor |-> "none"]

\* A mutant of connect(): the host posts an announcement too.
AnnouncesAlways(p) == TRUE

\* connect(): if (!this.isHost) await this.announcePresence().
Announces(p) == ~isHost(p)

\* new MultiplayerProvider(options) followed by connect(), up to connect's
\* first suspension point (createMultiplayerProvider). delivered tells whether
\* the guest's announcement reaches the relay.
NewProvider(p, delivered) ==
  /\ created' = [created EXCEPT ![p] = TRUE]
  /\ awareness' = [awareness EXCEPT ![p] = LocalState(p)]
  /\ doc' = [doc EXCEPT ![p] = IF isHost(p) THEN HostMeta(clientID[p]) ELSE EmptyDoc]
  /\ initialGameState' = [initialGameState EXCEPT ![p] = IF isHost(p) THEN "S0" ELSE "none"]
  /\ broadcastChannel' = [broadcastChannel EXCEPT ![p] = localhost]
  /\ connectionChange' = [connectionChange EXCEPT ![p] = 1]
  /\ playersChange' = [playersChange EXCEPT ![p] = Roster(p, {})]
  /\ IF localhost
     THEN \* enableLocalFallback()
          /\ useLocalFallback' = [useLocalFallback EXCEPT ![p] = TRUE]
          /\ updateHandler' = [updateHandler EXCEPT ![p] = TRUE]
          /\ stateRequestTimer' = [stateRequestTimer EXCEPT ![p] = ~isHost(p)]
          /\ broadcastQueue' =
               BroadcastPost(broadcastQueue, p, <<Message("awareness", p, {}, "none")>>)
          /\ UNCHANGED <<pollingInterval, startPollingPc, lookupCount, pollFetches,
                         announcePc, relay>>
     ELSE \* startSignalPolling(), then announcePresence() for a guest
          /\ pollingInterval' = [pollingInterval EXCEPT ![p] = ~isHost(p)]
          /\ startPollingPc' = [startPollingPc EXCEPT ![p] = IF isHost(p) THEN "fetch" ELSE "done"]
          /\ lookupCount' = [lookupCount EXCEPT ![p] = 0]
          /\ pollFetches' = [pollFetches EXCEPT ![p] = IF isHost(p) THEN <<>> ELSE <<0>>]
          /\ announcePc' = [announcePc EXCEPT ![p] = IF Announces(p) THEN "fetch" ELSE "none"]
          /\ relay' = IF Announces(p) /\ delivered
                      THEN Append(relay, Signal("offer", p, "all", "announce"))
                      ELSE relay
          /\ UNCHANGED <<useLocalFallback, updateHandler, stateRequestTimer, broadcastQueue>>
  /\ UNCHANGED <<localhost, clientID, destroyed, lastAppliedIndex, connectedPeers,
                 peerConnections, dataChannels, onActionLog, stateReceived,
                 channelQueue, signalTasks, gatherTimers, lastSeenSignals>>

(***************************************************************************)
(* MultiplayerContext: createRoom, joinRoom                                *)
(***************************************************************************)

\* createRoom, up to its fetch of /api/room.
CreateRoomCall(p) ==
  /\ isHost(p)
  /\ ctxPc[p] = "idle"
  /\ ctxPc' = [ctxPc EXCEPT ![p] = "createFetch"]
  /\ leftRoom' = [leftRoom EXCEPT ![p] = FALSE]
  /\ connectionState' = [connectionState EXCEPT ![p] = "connecting"]
  /\ error' = [error EXCEPT ![p] = FALSE]
  /\ UNCHANGED <<provVars, lifeVars, role, roomCode, players, initialState,
                 providerRef, joinAttempt, waitingForState, waitTimer>>
  /\ UNCHANGED auxVars

\* createRoom, from the response of /api/room on: the provider is created and
\* connected (a host's connect() never suspends), then recorded.
CreateRoomResponse(p, ok) ==
  /\ ctxPc[p] = "createFetch"
  /\ IF ok
     THEN /\ roomExists' = TRUE
          /\ NewProvider(p, TRUE)
          /\ ctxPc' = [ctxPc EXCEPT ![p] = "inRoom"]
          /\ connectionState' = [connectionState EXCEPT ![p] = "connected"]
          /\ players' = [players EXCEPT ![p] = Roster(p, {})]
          /\ providerRef' = [providerRef EXCEPT ![p] = TRUE]
          /\ roomCode' = [roomCode EXCEPT ![p] = TRUE]
          /\ role' = [role EXCEPT ![p] = "host"]
          /\ UNCHANGED error
     ELSE /\ ctxPc' = [ctxPc EXCEPT ![p] = "failed"]
          /\ connectionState' = [connectionState EXCEPT ![p] = "error"]
          /\ error' = [error EXCEPT ![p] = TRUE]
          /\ UNCHANGED <<provVars, lifeVars, players, providerRef, roomCode, role,
                         awareness>>
  /\ UNCHANGED <<initialState, joinAttempt, leftRoom, waitingForState, waitTimer>>
  /\ UNCHANGED <<negVars, hookVars, timerVars>>

\* joinRoom, up to its first fetch of /api/room.
JoinRoomCall(p) ==
  /\ ~isHost(p)
  /\ ctxPc[p] = "idle"
  /\ ctxPc' = [ctxPc EXCEPT ![p] = "joinFetch"]
  /\ joinAttempt' = [joinAttempt EXCEPT ![p] = 0]
  /\ leftRoom' = [leftRoom EXCEPT ![p] = FALSE]
  /\ connectionState' = [connectionState EXCEPT ![p] = "connecting"]
  /\ error' = [error EXCEPT ![p] = FALSE]
  /\ UNCHANGED <<provVars, lifeVars, role, roomCode, players, initialState,
                 providerRef, waitingForState, waitTimer>>
  /\ UNCHANGED auxVars

\* The rest of joinRoom and of CoopModal's handleJoinRoom once the provider is
\* connected: the provider is recorded and the modal waits for the state.
JoinRoomDone(p) ==
  /\ ctxPc' = [ctxPc EXCEPT ![p] = "inRoom"]
  /\ connectionState' = [connectionState EXCEPT ![p] = "connected"]
  /\ providerRef' = [providerRef EXCEPT ![p] = TRUE]
  /\ roomCode' = [roomCode EXCEPT ![p] = TRUE]
  /\ role' = [role EXCEPT ![p] = "guest"]
  /\ waitingForState' = [waitingForState EXCEPT ![p] = TRUE]
  /\ waitTimer' = [waitTimer EXCEPT ![p] = TRUE]

\* A mutant of joinRoom's retry condition: any failed lookup is retried.
JoinRetriesAlways(p, outcome) == outcome # "ok"

\* checkResponse.status === 404 && attempt < 2: the lookup is retried.
JoinRetries(p, outcome) == outcome = "notfound" /\ joinAttempt[p] < 2

\* joinRoom at the response of a room lookup. outcome is "ok", "notfound"
\* (404) or "error" (any other failure).
JoinLookupResponse(p, outcome, delivered) ==
  /\ ctxPc[p] = "joinFetch"
  /\ outcome = "ok" => roomExists
  /\ IF outcome = "ok"
     THEN /\ NewProvider(p, delivered)
          /\ players' = [players EXCEPT ![p] = Roster(p, {})]
          /\ IF localhost
             THEN JoinRoomDone(p)
             ELSE /\ ctxPc' = [ctxPc EXCEPT ![p] = "announce"]
                  /\ connectionState' = [connectionState EXCEPT ![p] = "connected"]
                  /\ UNCHANGED <<providerRef, roomCode, role, waitingForState, waitTimer>>
          /\ UNCHANGED <<roomExists, error>>
     ELSE /\ IF JoinRetries(p, outcome)
             THEN /\ ctxPc' = [ctxPc EXCEPT ![p] = "joinSleep"]
                  /\ UNCHANGED <<connectionState, error>>
             ELSE /\ ctxPc' = [ctxPc EXCEPT ![p] = "failed"]
                  /\ connectionState' = [connectionState EXCEPT ![p] = "error"]
                  /\ error' = [error EXCEPT ![p] = TRUE]
          /\ UNCHANGED <<provVars, lifeVars, players, providerRef, roomCode, role,
                         waitingForState, waitTimer, awareness>>
  /\ UNCHANGED <<initialState, joinAttempt, leftRoom>>
  /\ UNCHANGED <<negVars, hookVars, timerVars>>

\* joinRoom after its 500 ms wait: the next lookup attempt.
JoinRetry(p) ==
  /\ ctxPc[p] = "joinSleep"
  /\ ctxPc' = [ctxPc EXCEPT ![p] = "joinFetch"]
  /\ joinAttempt' = [joinAttempt EXCEPT ![p] = @ + 1]
  /\ UNCHANGED leftRoom
  /\ UNCHANGED <<provVars, lifeVars, connectionState, role, roomCode, players, error,
                 initialState, providerRef, waitingForState, waitTimer>>
  /\ UNCHANGED auxVars

(***************************************************************************)
(* MultiplayerProvider: dispatch and the two transports                    *)
(***************************************************************************)

\* Y.applyUpdate on p's document followed by the operations observer.
\* added is what the transaction integrated (the payload of the document's
\* 'update' event, which fires only when it is not empty).
MergeInto(p, d, lai, update) ==
  LET after == ApplyUpdate(d, update)
      obs == OpsObserver(p, lai, d, after)
  IN [doc |-> after,
      lastAppliedIndex |-> obs.lastAppliedIndex,
      actions |-> obs.actions,
      added |-> Items(after) \ Items(d)]

\* The merge of an update into p's document as it is now.
Merge(p, update) == MergeInto(p, doc[p], lastAppliedIndex[p], update)

\* A mutant of the provider's forwarding: a payload is handed over only while
\* none has been handed over before.
StateReceivedCallbackOnce(p, payload) ==
  IF isHost(p) \/ stateReceived[p] # <<>>
  THEN UNCHANGED <<stateReceived, initialState, waitingForState, waitTimer>>
  ELSE /\ stateReceived' = [stateReceived EXCEPT ![p] = Append(@, payload)]
       /\ initialState' = [initialState EXCEPT ![p] = payload]
       /\ waitingForState' = [waitingForState EXCEPT ![p] = FALSE]
       /\ waitTimer' = [waitTimer EXCEPT ![p] = FALSE]

\* The callbacks the context installs: onStateReceived exists for a guest only
\* and stores the state; CoopModal's effect then stops waiting.
StateReceivedCallback(p, payload) ==
  IF isHost(p)
  THEN UNCHANGED <<stateReceived, initialState, waitingForState, waitTimer>>
  ELSE /\ stateReceived' = [stateReceived EXCEPT ![p] = Append(@, payload)]
       /\ initialState' = [initialState EXCEPT ![p] = payload]
       /\ waitingForState' = [waitingForState EXCEPT ![p] = FALSE]
       /\ waitTimer' = [waitTimer EXCEPT ![p] = FALSE]

\* dispatchAction(action).
Dispatch(p, type) ==
  /\ created[p]
  /\ TotalOps < MaxOps
  /\ IF destroyed[p] THEN UNCHANGED vars
     ELSE
       LET action == FullAction(p, type, doc[p])
           item == NewItem(doc[p], clientID[p], "operations", action)
           after == YPush(doc[p], clientID[p], action)
           obs == OpsObserver(p, lastAppliedIndex[p], doc[p], after)
           update == EncodeStateAsUpdate(after)
           forwarded ==
             IF updateHandler[p] /\ useLocalFallback[p] /\ broadcastChannel[p]
             THEN <<Message("update", p, {item}, "none")>> ELSE <<>>
           posted ==
             IF useLocalFallback[p] /\ broadcastChannel[p]
             THEN <<Message("update", p, update, "none")>> ELSE <<>>
       IN /\ doc' = [doc EXCEPT ![p] = after]
          /\ lastAppliedIndex' = [lastAppliedIndex EXCEPT ![p] = obs.lastAppliedIndex]
          /\ onActionLog' = [onActionLog EXCEPT ![p] = @ \o obs.actions]
          /\ channelQueue' =
               ChannelSendAll(channelQueue, p, Message("update", p, update, "none"))
          /\ broadcastQueue' = BroadcastPost(broadcastQueue, p, forwarded \o posted)
          /\ UNCHANGED <<localhost, roomExists, clientID, created, destroyed,
                         initialGameState, broadcastChannel, useLocalFallback,
                         updateHandler, stateRequestTimer, connectedPeers,
                         peerConnections, dataChannels, pollingInterval,
                         stateReceived, connectionChange, playersChange,
                         lifeVars, ctxVars>>
  /\ UNCHANGED auxVars

\* The delayed state-request of enableLocalFallback (setTimeout, 100 ms).
StateRequestTimer(p) ==
  /\ stateRequestTimer[p]
  /\ stateRequestTimer' = [stateRequestTimer EXCEPT ![p] = FALSE]
  /\ broadcastQueue' =
       IF broadcastChannel[p]
       THEN BroadcastPost(broadcastQueue, p, <<Message("state-request", p, {}, "none")>>)
       ELSE broadcastQueue
  /\ UNCHANGED <<localhost, roomExists, clientID, created, destroyed, doc,
                 lastAppliedIndex, initialGameState, broadcastChannel,
                 useLocalFallback, updateHandler, connectedPeers, peerConnections,
                 dataChannels, pollingInterval, onActionLog, stateReceived,
                 connectionChange, playersChange, channelQueue, lifeVars, ctxVars>>
  /\ UNCHANGED auxVars

\* A mutant of the acknowledgement: every presence message is acknowledged.
AcknowledgesAlways(p, newPeer) == useLocalFallback[p]

\* onmessage for a presence message: the acknowledgement is posted if the
\* sender was not in connectedPeers and the loopback transport is in use.
Acknowledges(p, newPeer) == newPeer /\ useLocalFallback[p]

\* broadcastChannel.onmessage at p for the oldest message q posted, and
\* handleBroadcastMessage.
BroadcastReceive(p, q) ==
  /\ broadcastChannel[p]
  /\ broadcastQueue[<<q, p>>] # <<>>
  /\ LET msg == Head(broadcastQueue[<<q, p>>])
         rest == [broadcastQueue EXCEPT ![<<q, p>>] = Tail(@)]
         newPeer == msg.type = "awareness" /\ q \notin connectedPeers[p]
         handled == msg.type \in {"state-sync", "state-request"} \/ useLocalFallback[p]
         merges == handled /\ msg.type \in {"sync", "update"}
         m == Merge(p, msg.data)
         ack == IF Acknowledges(p, newPeer)
                THEN <<Message("awareness", p, {}, "none")>> ELSE <<>>
         reply == IF handled /\ msg.type = "state-request" /\ HasSnapshot(p)
                  THEN <<Message("state-sync", p, {}, initialGameState[p])>> ELSE <<>>
         \* msg.from on a message that is no object, Y.applyUpdate on bytes
         \* that are no update: no try/catch in onmessage or below it
         throws == msg.type = "null" \/ (handled /\ msg.type = "badupdate")
     IN /\ broadcastQueue' = BroadcastPost(rest, p, ack \o reply)
        /\ uncaught' = [uncaught EXCEPT ![p] = @ \/ throws]
        /\ connectedPeers' =
             [connectedPeers EXCEPT ![p] = IF newPeer THEN @ \cup {q} ELSE @]
        /\ IF newPeer
           THEN \* updateConnectionStatus()
                /\ connectionChange' =
                     [connectionChange EXCEPT ![p] = Cardinality(connectedPeers[p]) + 2]
                /\ playersChange' =
                     [playersChange EXCEPT ![p] = Roster(p, connectedPeers[p] \cup {q})]
                /\ connectionState' = [connectionState EXCEPT ![p] = "connected"]
                /\ players' = [players EXCEPT ![p] = Roster(p, connectedPeers[p] \cup {q})]
           ELSE UNCHANGED <<connectionChange, playersChange, connectionState, players>>
        /\ IF merges
           THEN /\ doc' = [doc EXCEPT ![p] = m.doc]
                /\ lastAppliedIndex' = [lastAppliedIndex EXCEPT ![p] = m.lastAppliedIndex]
                /\ onActionLog' = [onActionLog EXCEPT ![p] = @ \o m.actions]
           ELSE UNCHANGED <<doc, lastAppliedIndex, onActionLog>>
        /\ IF handled /\ msg.type = "state-sync"
           THEN StateReceivedCallback(p, msg.state)
           ELSE UNCHANGED <<stateReceived, initialState, waitingForState, waitTimer>>
  /\ UNCHANGED <<localhost, roomExists, clientID, created, destroyed,
                 initialGameState, broadcastChannel, useLocalFallback, updateHandler,
                 stateRequestTimer, peerConnections, dataChannels, pollingInterval,
                 channelQueue, lifeVars, ctxPc, role, roomCode, error, providerRef,
                 joinAttempt, leftRoom>>
  /\ UNCHANGED <<pendingIceCandidates, appliedCandidates, pcCreated, negotiationErrors,
                 awareness, hookVars, timerVars, outgoingIceCandidates, gathered, detached>>

\* pc.onconnectionstatechange at p with the Connection to q 'connected'.
PcConnected(p, q) ==
  /\ peerConnections[p][q] = "connecting"
  /\ peerConnections[q][p] \in {"connecting", "connected"}
  /\ peerConnections' = [peerConnections EXCEPT ![p][q] = "connected"]
  /\ connectedPeers' = [connectedPeers EXCEPT ![p] = @ \cup {q}]
  \* updateConnectionStatus()
  /\ connectionChange' =
       [connectionChange EXCEPT ![p] = Cardinality(connectedPeers[p] \cup {q}) + 1]
  /\ playersChange' = [playersChange EXCEPT ![p] = Roster(p, connectedPeers[p] \cup {q})]
  /\ connectionState' = [connectionState EXCEPT ![p] = "connected"]
  /\ players' = [players EXCEPT ![p] = Roster(p, connectedPeers[p] \cup {q})]
  \* stopPollingIfConnected()
  /\ pollingInterval' = [pollingInterval EXCEPT ![p] = FALSE]
  /\ UNCHANGED <<localhost, roomExists, clientID, created, destroyed, doc,
                 lastAppliedIndex, initialGameState, broadcastChannel,
                 useLocalFallback, updateHandler, stateRequestTimer, dataChannels,
                 onActionLog, stateReceived, channelQueue, broadcastQueue, lifeVars,
                 ctxPc, role, roomCode, error, initialState, providerRef, joinAttempt, leftRoom,
                 waitingForState, waitTimer>>
  /\ UNCHANGED auxVars

\* pc.ondatachannel at the answering side p: setupDataChannel(event.channel, q).
\* The channel is announced with readyState 'open'; its open event follows.
OnDataChannel(p, q) ==
  /\ peerConnections[p][q] = "connected"
  /\ dataChannels[p][q] = "none"
  /\ dataChannels[q][p] # "none"
  /\ dataChannels' = [dataChannels EXCEPT ![p][q] = "announced"]
  /\ UNCHANGED <<localhost, roomExists, clientID, created, destroyed, doc,
                 lastAppliedIndex, initialGameState, broadcastChannel,
                 useLocalFallback, updateHandler, stateRequestTimer, connectedPeers,
                 peerConnections, pollingInterval, onActionLog, stateReceived,
                 connectionChange, playersChange, channelQueue, broadcastQueue,
                 lifeVars, ctxVars>>
  /\ UNCHANGED auxVars

\* A mutant of channel.onopen: the state-request is sent first.
OnOpenRequestFirst(p, synced) ==
  (IF isHost(p) THEN <<>> ELSE <<Message("state-request", p, {}, "none")>>)
    \o synced

\* syncDocument(q) at p: what it sends if the channel the table holds for q
\* is open (inTable): the full state of the document, then the local
\* presence record if there is one.
SyncDocument(p, inTable) ==
  IF ~inTable THEN <<>>
  ELSE <<Message("sync", p, EncodeStateAsUpdate(doc[p]), "none")>>
         \o (IF awareness[p] # NullState
             THEN <<AwarenessMessage(p, awareness[p])>> ELSE <<>>)

\* channel.onopen at p: after syncDocument, a guest sends its state-request
\* on the channel that opened.
OnOpen(p, synced) ==
  synced
    \o (IF isHost(p) THEN <<>> ELSE <<Message("state-request", p, {}, "none")>>)

\* channel.onopen at p for the channel to q that the table holds:
\* syncDocument(q), and a guest's state-request.
ChannelOpen(p, q) ==
  /\ dataChannels[p][q] \in {"connecting", "announced"}
  /\ peerConnections[p][q] = "connected"
  /\ dataChannels' = [dataChannels EXCEPT ![p][q] = "open"]
  /\ channelQueue' =
       [channelQueue EXCEPT ![<<p, q>>] = @ \o OnOpen(p, SyncDocument(p, TRUE))]
  /\ UNCHANGED <<localhost, roomExists, clientID, created, destroyed, doc,
                 lastAppliedIndex, initialGameState, broadcastChannel,
                 useLocalFallback, updateHandler, stateRequestTimer, connectedPeers,
                 peerConnections, pollingInterval, onActionLog, stateReceived,
                 connectionChange, playersChange, broadcastQueue, lifeVars, ctxVars>>
  /\ UNCHANGED auxVars

\* channel.onmessage at p for the oldest frame q sent: handleDataChannelMessage.
ChannelMessage(p, q) ==
  /\ dataChannels[p][q] = "open"
  /\ channelQueue[<<q, p>>] # <<>>
  /\ LET msg == Head(channelQueue[<<q, p>>])
         rest == [channelQueue EXCEPT ![<<q, p>>] = Tail(@)]
         merges == msg.type \in {"sync", "update"}
         m == Merge(p, msg.data)
         reply == msg.type = "state-request" /\ HasSnapshot(p)
     IN /\ channelQueue' =
             IF reply
             THEN [rest EXCEPT ![<<p, q>>] =
                     Append(@, Message("state-sync", p, {}, initialGameState[p]))]
             ELSE rest
        /\ IF merges
           THEN /\ doc' = [doc EXCEPT ![p] = m.doc]
                /\ lastAppliedIndex' = [lastAppliedIndex EXCEPT ![p] = m.lastAppliedIndex]
                /\ onActionLog' = [onActionLog EXCEPT ![p] = @ \o m.actions]
                \* the doc.on('update') forwarder sees origin undefined
                /\ broadcastQueue' =
                     IF updateHandler[p] /\ useLocalFallback[p] /\ broadcastChannel[p]
                        /\ m.added # {}
                     THEN BroadcastPost(broadcastQueue, p,
                                        <<Message("update", p, m.added, "none")>>)
                     ELSE broadcastQueue
           ELSE UNCHANGED <<doc, lastAppliedIndex, onActionLog, broadcastQueue>>
        /\ IF msg.type = "awareness"
           THEN \* notifyPlayersChange()
                /\ playersChange' = [playersChange EXCEPT ![p] = Roster(p, connectedPeers[p])]
                /\ players' = [players EXCEPT ![p] = Roster(p, connectedPeers[p])]
           ELSE UNCHANGED <<playersChange, players>>
        /\ IF msg.type = "state-sync" /\ msg.state # "none"
           THEN StateReceivedCallback(p, msg.state)
           ELSE UNCHANGED <<stateReceived, initialState, waitingForState, waitTimer>>
  /\ UNCHANGED <<localhost, roomExists, clientID, created, destroyed,
                 initialGameState, broadcastChannel, useLocalFallback, updateHandler,
                 stateRequestTimer, connectedPeers, peerConnections, dataChannels,
                 pollingInterval, connectionChange, lifeVars, ctxPc, connectionState,
                 role, roomCode, error, providerRef, joinAttempt, leftRoom>>
  /\ UNCHANGED auxVars

(***************************************************************************)
(* Replication: the providers of one room, over loopback or direct channels*)
(***************************************************************************)

\* The browser objects of a Connection that is in no table: the state of
\* the RTCPeerConnection and the readyState of its channel.
NoConnection == [pc |-> "none", channel |-> "none"]

\* No candidate buffered or applied, no Connection created, no error yet.
NegBlank ==
  /\ pendingIceCandidates = [p \in Peers |-> [q \in Peers |-> <<>>]]
  /\ appliedCandidates = [p \in Peers |-> [q \in Peers |-> <<>>]]
  /\ pcCreated = [p \in Peers |-> [q \in Peers |-> 0]]
  /\ negotiationErrors = [p \in Peers |-> {}]
  /\ uncaught = [p \in Peers |-> FALSE]
  /\ outgoingIceCandidates = [p \in Peers |-> [q \in Peers |-> <<>>]]
  /\ gathered = [p \in Peers |-> [q \in Peers |-> <<>>]]
  /\ detached = [p \in Peers |-> [q \in Peers |-> NoConnection]]

\* The values every variable has before any provider exists.
Blank ==
  /\ NegBlank
  /\ awareness = [p \in Peers |-> NullState]
  /\ HookBlank
  /\ TimerBlank
  /\ roomExists = FALSE
  /\ created = [p \in Peers |-> FALSE]
  /\ destroyed = [p \in Peers |-> FALSE]
  /\ doc = [p \in Peers |-> EmptyDoc]
  /\ lastAppliedIndex = [p \in Peers |-> 0]
  /\ initialGameState = [p \in Peers |-> "none"]
  /\ broadcastChannel = [p \in Peers |-> FALSE]
  /\ useLocalFallback = [p \in Peers |-> FALSE]
  /\ updateHandler = [p \in Peers |-> FALSE]
  /\ stateRequestTimer = [p \in Peers |-> FALSE]
  /\ connectedPeers = [p \in Peers |-> {}]
  /\ peerConnections = [p \in Peers |-> [q \in Peers |-> "none"]]
  /\ dataChannels = [p \in Peers |-> [q \in Peers |-> "none"]]
  /\ pollingInterval = [p \in Peers |-> FALSE]
  /\ onActionLog = [p \in Peers |-> <<>>]
  /\ stateReceived = [p \in Peers |-> <<>>]
  /\ connectionChange = [p \in Peers |-> 0]
  /\ playersChange = [p \in Peers |-> <<>>]
  /\ channelQueue = [pr \in Pairs |-> <<>>]
  /\ broadcastQueue = [pr \in Pairs |-> <<>>]
  /\ startPollingPc = [p \in Peers |-> "none"]
  /\ lookupCount = [p \in Peers |-> 0]
  /\ pollFetches = [p \in Peers |-> <<>>]
  /\ signalTasks = [p \in Peers |-> <<>>]
  /\ announcePc = [p \in Peers |-> "none"]
  /\ gatherTimers = [p \in Peers |-> 0]
  /\ lastSeenSignals = [p \in Peers |-> 0]
  /\ relay = <<>>
  /\ ctxPc = [p \in Peers |-> "idle"]
  /\ connectionState = [p \in Peers |-> "disconnected"]
  /\ role = [p \in Peers |-> "solo"]
  /\ roomCode = [p \in Peers |-> FALSE]
  /\ players = [p \in Peers |-> <<>>]
  /\ error = [p \in Peers |-> FALSE]
  /\ initialState = [p \in Peers |-> "none"]
  /\ providerRef = [p \in Peers |-> FALSE]
  /\ joinAttempt = [p \in Peers |-> 0]
  /\ leftRoom = [p \in Peers |-> FALSE]
  /\ waitingForState = [p \in Peers |-> FALSE]
  /\ waitTimer = [p \in Peers |-> FALSE]

\* doc.clientID is drawn at random: any assignment of distinct ids.
ClientIds == 1..Cardinality(Peers)

ClientAssignments ==
  {f \in [Peers -> ClientIds] : \A p, q \in Peers : p # q => f[p] # f[q]}

\* On localhost every peer starts with no room; the loopback transport is then
\* the only one connect() starts.
InitLoopback ==
  /\ localhost = TRUE
  /\ clientID \in ClientAssignments
  /\ Blank

\* On a deployed origin: the state once host and guest have exchanged the
\* announcement, the offer and the answer through the relay and the gathering
\* timeouts have run out. The host's channel exists and is connecting; nothing
\* has been dispatched yet.
InitDirect ==
  /\ localhost = FALSE
  /\ pendingIceCandidates = [p \in Peers |-> [q \in Peers |-> <<>>]]
  /\ appliedCandidates = [p \in Peers |-> [q \in Peers |-> <<>>]]
  /\ pcCreated = [p \in Peers |-> [q \in Peers |-> IF isHost(p) # isHost(q) THEN 1 ELSE 0]]
  /\ negotiationErrors = [p \in Peers |-> {}]
  /\ uncaught = [p \in Peers |-> FALSE]
  /\ outgoingIceCandidates = [p \in Peers |-> [q \in Peers |-> <<>>]]
  /\ gathered = [p \in Peers |-> [q \in Peers |-> <<>>]]
  /\ detached = [p \in Peers |-> [q \in Peers |-> NoConnection]]
  /\ awareness = [p \in Peers |-> IF p \in PairPeers THEN LocalState(p) ELSE NullState]
  /\ HookBlank
  /\ TimerBlank
  /\ clientID \in ClientAssignments
  /\ roomExists = TRUE
  /\ created = [p \in Peers |-> p \in PairPeers]
  /\ destroyed = [p \in Peers |-> FALSE]
  /\ doc = [p \in Peers |-> IF isHost(p) THEN HostMeta(clientID[p]) ELSE EmptyDoc]
  /\ lastAppliedIndex = [p \in Peers |-> 0]
  /\ initialGameState = [p \in Peers |-> IF isHost(p) THEN "S0" ELSE "none"]
  /\ broadcastChannel = [p \in Peers |-> FALSE]
  /\ useLocalFallback = [p \in Peers |-> FALSE]
  /\ updateHandler = [p \in Peers |-> FALSE]
  /\ stateRequestTimer = [p \in Peers |-> FALSE]
  /\ connectedPeers = [p \in Peers |-> {}]
  /\ peerConnections =
       [p \in Peers |-> [q \in Peers |-> IF isHost(p) # isHost(q) THEN "connecting" ELSE "none"]]
  /\ dataChannels =
       [p \in Peers |-> [q \in Peers |-> IF isHost(p) /\ ~isHost(q) THEN "connecting" ELSE "none"]]
  /\ pollingInterval = [p \in Peers |-> TRUE]
  /\ onActionLog = [p \in Peers |-> <<>>]
  /\ stateReceived = [p \in Peers |-> <<>>]
  /\ connectionChange = [p \in Peers |-> 1]
  /\ playersChange = [p \in Peers |-> Roster(p, {})]
  /\ channelQueue = [pr \in Pairs |-> <<>>]
  /\ broadcastQueue = [pr \in Pairs |-> <<>>]
  /\ startPollingPc = [p \in Peers |-> "done"]
  /\ lookupCount = [p \in Peers |-> 0]
  /\ pollFetches = [p \in Peers |-> <<>>]
  /\ signalTasks = [p \in Peers |-> <<>>]
  /\ announcePc = [p \in Peers |-> IF isHost(p) THEN "none" ELSE "done"]
  /\ gatherTimers = [p \in Peers |-> 0]
  /\ lastSeenSignals = [p \in Peers |-> 3]
  /\ relay = <<Signal("offer", "G1", "all", "announce"),
               Signal("offer", "H", "G1", "sdp"),
               Signal("answer", "G1", "H", "sdp")>>
  /\ ctxPc = [p \in Peers |-> "inRoom"]
  /\ connectionState = [p \in Peers |-> "connected"]
  /\ role = [p \in Peers |-> IF isHost(p) THEN "host" ELSE "guest"]
  /\ roomCode = [p \in Peers |-> TRUE]
  /\ players = [p \in Peers |-> Roster(p, {})]
  /\ error = [p \in Peers |-> FALSE]
  /\ initialState = [p \in Peers |-> "none"]
  /\ providerRef = [p \in Peers |-> TRUE]
  /\ joinAttempt = [p \in Peers |-> 0]
  /\ leftRoom = [p \in Peers |-> FALSE]
  /\ waitingForState = [p \in Peers |-> ~isHost(p)]
  /\ waitTimer = [p \in Peers |-> ~isHost(p)]

Init == InitLoopback \/ InitDirect

Next ==
  \/ \E p \in PairPeers : CreateRoomCall(p)
  \/ \E p \in PairPeers : CreateRoomResponse(p, TRUE)
  \/ \E p \in PairPeers : JoinRoomCall(p)
  \/ \E p \in PairPeers : JoinLookupResponse(p, "ok", TRUE)
  \/ \E p \in PairPeers, t \in ActionTypes : Dispatch(p, t)
  \/ \E p \in PairPeers : StateRequestTimer(p)
  \/ \E p, q \in PairPeers : BroadcastReceive(p, q)
  \/ \E p, q \in PairPeers : PcConnected(p, q)
  \/ \E p, q \in PairPeers : OnDataChannel(p, q)
  \/ \E p, q \in PairPeers : ChannelOpen(p, q)
  \/ \E p, q \in PairPeers : ChannelMessage(p, q)

Spec == Init /\ [][Next]_vars

(***************************************************************************)
(* Replication in a room whose handshake is complete                       *)
(***************************************************************************)

\* A host and both guests, connected: on a deployed origin (lh false) each
\* guest holds an open direct channel to the host and has merged the host's
\* sync; on localhost (lh true) every peer has enabled loopback and has seen
\* the others' announcements, G1 having joined before G2. Nothing has been
\* dispatched yet. With req the guests' state-requests are still under way
\* (in flight on the direct channels, or behind the 100 ms delay on
\* loopback) and the guests wait for the state; without it every guest has
\* received the snapshot and every queue is empty.
InitHandshake(lh, req) ==
  /\ localhost = lh
  /\ pendingIceCandidates = [p \in Peers |-> [q \in Peers |-> <<>>]]
  /\ appliedCandidates = [p \in Peers |-> [q \in Peers |-> <<>>]]
  /\ pcCreated =
       [p \in Peers |-> [q \in Peers |-> IF ~lh /\ isHost(p) # isHost(q) THEN 1 ELSE 0]]
  /\ negotiationErrors = [p \in Peers |-> {}]
  /\ uncaught = [p \in Peers |-> FALSE]
  /\ outgoingIceCandidates = [p \in Peers |-> [q \in Peers |-> <<>>]]
  /\ gathered = [p \in Peers |-> [q \in Peers |-> <<>>]]
  /\ detached = [p \in Peers |-> [q \in Peers |-> NoConnection]]
  /\ awareness = [p \in Peers |-> LocalState(p)]
  /\ HookBlank
  /\ TimerBlank
  /\ clientID \in ClientAssignments
  /\ roomExists = TRUE
  /\ created = [p \in Peers |-> TRUE]
  /\ destroyed = [p \in Peers |-> FALSE]
  /\ doc = [p \in Peers |->
              IF isHost(p) THEN HostMeta(clientID[p])
              ELSE IF lh THEN EmptyDoc
              ELSE ApplyUpdate(EmptyDoc, EncodeStateAsUpdate(HostMeta(clientID[Host])))]
  /\ lastAppliedIndex = [p \in Peers |-> 0]
  /\ initialGameState = [p \in Peers |-> IF isHost(p) THEN "S0" ELSE "none"]
  /\ broadcastChannel = [p \in Peers |-> lh]
  /\ useLocalFallback = [p \in Peers |-> lh]
  /\ updateHandler = [p \in Peers |-> lh]
  /\ stateRequestTimer = [p \in Peers |-> lh /\ req /\ ~isHost(p)]
  /\ connectedPeers = [p \in Peers |-> IF lh \/ isHost(p) THEN Peers \ {p} ELSE {Host}]
  /\ peerConnections =
       [p \in Peers |-> [q \in Peers |->
          IF ~lh /\ isHost(p) # isHost(q) THEN "connected" ELSE "none"]]
  /\ dataChannels =
       [p \in Peers |-> [q \in Peers |->
          IF ~lh /\ isHost(p) # isHost(q) THEN "open" ELSE "none"]]
  /\ pollingInterval = [p \in Peers |-> FALSE]
  /\ onActionLog = [p \in Peers |-> <<>>]
  /\ stateReceived =
       [p \in Peers |-> IF isHost(p) \/ req THEN <<>>
                        ELSE IF lh /\ p = "G1" THEN <<"S0", "S0">> ELSE <<"S0">>]
  /\ connectionChange = [p \in Peers |-> Cardinality(connectedPeers[p]) + 1]
  /\ playersChange = [p \in Peers |-> Roster(p, connectedPeers[p])]
  /\ channelQueue =
       [pr \in Pairs |->
          IF ~lh /\ req /\ ~isHost(pr[1]) /\ isHost(pr[2])
          THEN <<Message("state-request", pr[1], {}, "none")>> ELSE <<>>]
  /\ broadcastQueue = [pr \in Pairs |-> <<>>]
  /\ startPollingPc = [p \in Peers |-> IF lh THEN "none" ELSE "done"]
  /\ lookupCount = [p \in Peers |-> 0]
  /\ pollFetches = [p \in Peers |-> <<>>]
  /\ signalTasks = [p \in Peers |-> <<>>]
  /\ announcePc = [p \in Peers |-> IF lh \/ isHost(p) THEN "none" ELSE "done"]
  /\ gatherTimers = [p \in Peers |-> 0]
  /\ lastSeenSignals = [p \in Peers |-> IF lh THEN 0 ELSE 6]
  /\ relay = IF lh THEN <<>>
             ELSE <<Signal("offer", "G1", "all", "announce"),
                    Signal("offer", "G2", "all", "announce"),
                    Signal("offer", "H", "G1", "sdp"),
                    Signal("offer", "H", "G2", "sdp"),
                    Signal("answer", "G1", "H", "sdp"),
                    Signal("answer", "G2", "H", "sdp")>>
  /\ ctxPc = [p \in Peers |-> "inRoom"]
  /\ connectionState = [p \in Peers |-> "connected"]
  /\ role = [p \in Peers |-> IF isHost(p) THEN "host" ELSE "guest"]
  /\ roomCode = [p \in Peers |-> TRUE]
  /\ players = [p \in Peers |-> Roster(p, connectedPeers[p])]
  /\ error = [p \in Peers |-> FALSE]
  /\ initialState = [p \in Peers |-> IF isHost(p) \/ req THEN "none" ELSE "S0"]
  /\ providerRef = [p \in Peers |-> TRUE]
  /\ joinAttempt = [p \in Peers |-> 0]
  /\ leftRoom = [p \in Peers |-> FALSE]
  /\ waitingForState = [p \in Peers |-> req /\ ~isHost(p)]
  /\ waitTimer = [p \in Peers |-> req /\ ~isHost(p)]

\* The room once every guest has its snapshot.
InitConnected(lh) == InitHandshake(lh, FALSE)

InitRoom == InitConnected(TRUE) \/ InitConnected(FALSE)

NextRoom ==
  \/ \E p \in Peers, t \in ActionTypes : Dispatch(p, t)
  \/ \E p, q \in Peers : BroadcastReceive(p, q)
  \/ \E p, q \in Peers : ChannelMessage(p, q)

SpecRoom == InitRoom /\ [][NextRoom]_vars

(***************************************************************************)
(* Delivery of the log to onAction                                         *)
(***************************************************************************)

\* How many times x occurs in s.
Count(s, x) == Cardinality({i \in 1..Len(s) : s[i] = x})

\* No message is in flight on any transport and no state-request is pending.
AllDelivered ==
  /\ \A pr \in Pairs : channelQueue[pr] = <<>> /\ broadcastQueue[pr] = <<>>
  /\ \A p \in Peers : ~stateRequestTimer[p]

\* C1: every operation in a peer's log that another peer authored has been
\* handed to that peer's onAction exactly once: none twice, none skipped.
C1_ExactlyOnce ==
  \A p \in Peers :
    \A i \in 1..Len(OpsOf(doc[p])) :
      OpsOf(doc[p])[i].playerId # p
        => Count(onActionLog[p], OpsOf(doc[p])[i]) = 1

\* C2: onAction is never invoked with an operation the peer authored itself,
\* whether it entered the log by dispatchAction or inside a merged update.
C2_NeverOwn ==
  \A p \in Peers :
    \A i \in 1..Len(onActionLog[p]) : onActionLog[p][i].playerId # p

\* C2's case: q appended an operation after p's own (its origin is p's
\* item), p merged q's update, which carries p's operation back, and p's
\* onAction received q's operation.
C2_Witness ==
  \E p \in Peers : \E q \in Peers \ {p} :
    \E x \in OwnOps(doc[p], q) :
      /\ \E y \in OwnOps(doc[p], p) : x.origin = y.id
      /\ x.content \in Range(onActionLog[p])

\* C3: in every step the watermark does not decrease and stays within the
\* log, and each entry the watermark advances past that another peer
\* authored has by then been handed to onAction exactly once.
C3_Watermark ==
  [][\A p \in Peers :
       /\ lastAppliedIndex'[p] >= lastAppliedIndex[p]
       /\ lastAppliedIndex'[p] <= Len(OpsOf(doc'[p]))
       /\ \A i \in (lastAppliedIndex[p] + 1)..lastAppliedIndex'[p] :
            OpsOf(doc'[p])[i].playerId # p
              => Count(onActionLog'[p], OpsOf(doc'[p])[i]) = 1]_vars

\* C4: once every sent message has been delivered, the host and the guests
\* connected to it hold the same sequence of operations.
C4_Converged ==
  AllDelivered
    => \A p \in Peers : \A q \in connectedPeers[p] : OpsOf(doc[p]) = OpsOf(doc[q])

\* C10: on localhost, with only A and B dispatching in a connected room,
\* once every loopback message has been delivered each action A dispatched
\* has been handed to B's onAction.
C10_LoopbackDelivers ==
  (localhost /\ AllDelivered /\ OwnOps(doc["G2"], "G2") = {})
    => \A a \in PairPeers : \A b \in PairPeers \ {a} :
         \A x \in OwnOps(doc[a], a) : x.content \in Range(onActionLog[b])

(***************************************************************************)
(* Merging: local edits and their updates on the loopback transport        *)
(***************************************************************************)

\* The local inserts made after construction, over all peers.
TotalEdits ==
  Cardinality(UNION {{x \in Items(doc[p]) : x.id[1] = clientID[p]} : p \in Peers})
    - Cardinality(Items(HostMeta(clientID[Host])))

\* setMeta(key, value): the map set is a local transaction, which the
\* doc.on('update') handler of enableLocalFallback posts to the loopback
\* channel. The operations observer does not run: the log did not change.
SetMeta(p, key, value) ==
  /\ created[p]
  /\ LET item == NewItem(doc[p], clientID[p], key, [value |-> value])
         forwarded ==
           IF updateHandler[p] /\ useLocalFallback[p] /\ broadcastChannel[p]
           THEN <<Message("update", p, {item}, "none")>> ELSE <<>>
     IN /\ doc' = [doc EXCEPT ![p] = YMapSet(@, clientID[p], key, value)]
        /\ broadcastQueue' = BroadcastPost(broadcastQueue, p, forwarded)
  /\ UNCHANGED <<localhost, roomExists, clientID, created, destroyed,
                 lastAppliedIndex, initialGameState, broadcastChannel,
                 useLocalFallback, updateHandler, stateRequestTimer,
                 connectedPeers, peerConnections, dataChannels, pollingInterval,
                 onActionLog, stateReceived, connectionChange, playersChange,
                 channelQueue, lifeVars, ctxVars>>
  /\ UNCHANGED auxVars

\* The peers of a localhost room append to the log and set metadata; every
\* edit travels as an incremental update and, for an append, again inside
\* the full state, so a peer merges the same items more than once and the
\* updates of different senders in any order.
InitMerge == InitConnected(TRUE)

\* dispatchAction while the edits stay within the bound.
DispatchEdit(p, type) ==
  /\ TotalEdits < MaxEdits
  /\ Dispatch(p, type)

\* setMeta while the edits stay within the bound.
SetMetaEdit(p, key, value) ==
  /\ TotalEdits < MaxEdits
  /\ SetMeta(p, key, value)

NextMerge ==
  \/ \E p \in Peers, t \in ActionTypes : DispatchEdit(p, t)
  \/ \E p \in Peers, k \in SetMetaKeys, v \in SetMetaValues : SetMetaEdit(p, k, v)
  \/ \E p, q \in Peers : BroadcastReceive(p, q)

SpecMerge == InitMerge /\ [][NextMerge]_vars

\* The update p is about to merge from q, if the oldest message of q in
\* flight to p carries one.
HasUpdate(p, q) ==
  /\ broadcastQueue[<<q, p>>] # <<>>
  /\ Head(broadcastQueue[<<q, p>>]).type \in {"sync", "update"}

NextUpdate(p, q) == Head(broadcastQueue[<<q, p>>]).data

\* C5: merging the update a peer is about to receive twice gives the
\* document that merging it once gives, and the second merge hands nothing
\* to onAction; an update whose items the document already holds changes
\* nothing and hands nothing to onAction.
C5_Idempotent ==
  \A p \in Peers : \A q \in Peers \ {p} :
    HasUpdate(p, q) =>
      LET u == NextUpdate(p, q)
          once == MergeInto(p, doc[p], lastAppliedIndex[p], u)
          twice == MergeInto(p, once.doc, once.lastAppliedIndex, u)
      IN /\ twice.doc = once.doc
         /\ twice.actions = <<>>
         /\ twice.lastAppliedIndex = once.lastAppliedIndex
         /\ u \subseteq Items(doc[p]) => once.doc = doc[p] /\ once.actions = <<>>

\* C5's case: the update about to be merged carries an operation that p has
\* merged before and that its onAction has received.
C5_Witness ==
  \E p \in Peers : \E q \in Peers \ {p} :
    /\ HasUpdate(p, q)
    /\ NextUpdate(p, q) \subseteq Items(doc[p])
    /\ \E x \in NextUpdate(p, q) :
         x.parent = "operations" /\ x.content \in Range(onActionLog[p])

\* C6: when updates of two different senders are about to reach a peer,
\* merging them in either order gives the same document: the same
\* operations in the same order and the same metadata.
C6_Commutative ==
  \A p \in Peers : \A q1, q2 \in Peers \ {p} :
    (q1 # q2 /\ HasUpdate(p, q1) /\ HasUpdate(p, q2)) =>
      LET u1 == NextUpdate(p, q1)
          u2 == NextUpdate(p, q2)
          a == ApplyUpdate(ApplyUpdate(doc[p], u1), u2)
          b == ApplyUpdate(ApplyUpdate(doc[p], u2), u1)
      IN /\ OpsOf(a) = OpsOf(b)
         /\ MetaOf(a) = MetaOf(b)
         /\ a = b

\* C6's case: the two updates carry concurrent inserts (same origin,
\* different clients) that the peer does not hold yet, and another peer
\* holds both already.
C6_Witness ==
  \E p \in Peers : \E q1, q2 \in Peers \ {p} :
    /\ q1 # q2 /\ HasUpdate(p, q1) /\ HasUpdate(p, q2)
    /\ \E x1 \in NextUpdate(p, q1) \ Items(doc[p]) :
         \E x2 \in NextUpdate(p, q2) \ Items(doc[p]) :
           /\ x1.parent = x2.parent
           /\ x1.origin = x2.origin
           /\ x1.id[1] # x2.id[1]
           /\ \E r \in Peers : {x1, x2} \subseteq Items(doc[r])

(***************************************************************************)
(* MultiplayerProvider: relay polling and negotiation                      *)
(***************************************************************************)

\* The lookups of the host's startPolling loop (for i < 6).
LookupAttempts == 6

\* How many polls of one peer may await their response at a time.
MaxPolls == 1

\* The snapshot updateGameState is called with.
GameStates == {"S1"}

\* GET /api/signal for p with cursor lastSeen: the signals stored after the
\* cursor that another peer sent to p or to everybody.
SignalsFor(p, lastSeen) ==
  SelectSeq(SubSeq(relay, lastSeen + 1, Len(relay)),
            LAMBDA s : s.from # p /\ s.to \in {p, "all"})

\* A signal of a poll response waiting for handleSignal. The signals of one
\* response are handled one after the other (stage "next" until the one
\* before is done); the handlers of different responses overlap at their
\* suspension points.
Task(signal, stage) == [signal |-> signal, stage |-> stage]

\* The tasks of one response: the first may start.
Batch(signals) ==
  [i \in 1..Len(signals) |-> Task(signals[i], IF i = 1 THEN "start" ELSE "next")]

\* handleSignal for task i returns: the next signal of its response may start.
Finish(tasks, i) ==
  LET rest == SubSeq(tasks, i + 1, Len(tasks))
  IN SubSeq(tasks, 1, i - 1)
       \o (IF rest # <<>> /\ rest[1].stage = "next"
           THEN <<Task(rest[1].signal, "start")>> \o Tail(rest)
           ELSE rest)

\* handleSignal for task i throws into pollSignals' catch: the signals of its
\* response that were not handled yet are never handled.
RECURSIVE Abort(_, _)
Abort(tasks, i) ==
  IF i < Len(tasks) /\ tasks[i + 1].stage = "next"
  THEN Abort(SubSeq(tasks, 1, i) \o SubSeq(tasks, i + 2, Len(tasks)), i)
  ELSE SubSeq(tasks, 1, i - 1) \o SubSeq(tasks, i + 1, Len(tasks))

\* The tasks of p that wait for candidate gathering.
Gathering(p) == {i \in 1..Len(signalTasks[p]) : signalTasks[p][i].stage = "gather"}

\* this.pollingInterval = setInterval(pollSignals, 2000), then the initial
\* pollSignals(), which returns at once on a destroyed provider. The
\* assignment overwrites the handle of an interval that is still held, and
\* that interval keeps running.
SetInterval(p) ==
  /\ pollingInterval' = [pollingInterval EXCEPT ![p] = TRUE]
  /\ orphanTimers' =
       [orphanTimers EXCEPT ![p] = IF pollingInterval[p] THEN @ + 1 ELSE @]
  /\ pollFetches' =
       [pollFetches EXCEPT ![p] =
          IF destroyed[p] THEN @ ELSE Append(@, lastSeenSignals[p])]

\* The end of the provider's first startPolling.
StartInterval(p) ==
  /\ SetInterval(p)
  /\ startPollingPc' = [startPollingPc EXCEPT ![p] = "done"]

\* startPolling of the host at the response of a room lookup.
LookupResponse(p, ok) ==
  /\ startPollingPc[p] = "fetch"
  /\ IF ok
     THEN /\ StartInterval(p)
          /\ UNCHANGED lookupCount
     ELSE /\ startPollingPc' = [startPollingPc EXCEPT ![p] = "sleep"]
          /\ lookupCount' = [lookupCount EXCEPT ![p] = @ + 1]
          /\ UNCHANGED <<pollingInterval, pollFetches, orphanTimers>>
  /\ UNCHANGED <<localhost, roomExists, clientID, created, destroyed, doc,
                 lastAppliedIndex, initialGameState, broadcastChannel,
                 useLocalFallback, updateHandler, stateRequestTimer,
                 connectedPeers, peerConnections, dataChannels, onActionLog,
                 stateReceived, connectionChange, playersChange, channelQueue,
                 broadcastQueue, signalTasks, announcePc, gatherTimers,
                 lastSeenSignals, relay, ctxVars>>
  /\ UNCHANGED <<negVars, awareness, hookVars, secondLoop>>

\* startPolling of the host when the fetch of a room lookup rejects (no
\* response): the await throws, nothing in startPolling catches it, and the
\* function ends there with an unhandled rejection.
LookupRejects(p) ==
  /\ startPollingPc[p] = "fetch"
  /\ startPollingPc' = [startPollingPc EXCEPT ![p] = "failed"]
  /\ uncaught' = [uncaught EXCEPT ![p] = TRUE]
  /\ UNCHANGED <<provVars, lookupCount, pollFetches, signalTasks, announcePc,
                 gatherTimers, lastSeenSignals, relay, ctxVars,
                 pendingIceCandidates, appliedCandidates, pcCreated,
                 negotiationErrors, awareness, hookVars, timerVars, outgoingIceCandidates, gathered,
                 detached>>

\* startPolling of the host after the 500 ms wait that follows a failed
\* lookup: the next lookup, or the end of the loop.
LookupSleep(p) ==
  /\ startPollingPc[p] = "sleep"
  /\ IF lookupCount[p] = LookupAttempts
     THEN StartInterval(p)
     ELSE /\ startPollingPc' = [startPollingPc EXCEPT ![p] = "fetch"]
          /\ UNCHANGED <<pollingInterval, pollFetches, orphanTimers>>
  /\ UNCHANGED <<localhost, roomExists, clientID, created, destroyed, doc,
                 lastAppliedIndex, initialGameState, broadcastChannel,
                 useLocalFallback, updateHandler, stateRequestTimer,
                 connectedPeers, peerConnections, dataChannels, onActionLog,
                 stateReceived, connectionChange, playersChange, channelQueue,
                 broadcastQueue, lookupCount, signalTasks, announcePc,
                 gatherTimers, lastSeenSignals, relay, ctxVars>>
  /\ UNCHANGED <<negVars, awareness, hookVars, secondLoop>>

\* A tick of a running polling interval, the one the provider holds or one
\* whose handle it lost, while fewer than n polls of p await their response:
\* pollSignals up to its fetch.
PollTickUpTo(p, n) ==
  /\ pollingInterval[p] \/ orphanTimers[p] > 0
  /\ Len(pollFetches[p]) < n
  /\ pollFetches' =
       [pollFetches EXCEPT ![p] =
          IF destroyed[p] THEN @ ELSE Append(@, lastSeenSignals[p])]
  /\ UNCHANGED <<provVars, startPollingPc, lookupCount, signalTasks, announcePc,
                 gatherTimers, lastSeenSignals, relay, ctxVars>>
  /\ UNCHANGED auxVars

PollTick(p) == PollTickUpTo(p, MaxPolls)

\* pollSignals at the response of one of its fetches: the relay answers with
\* the signals stored after the cursor the request carried, the cursor moves
\* and the signals are queued for handleSignal, one after the other.
PollResponse(p, ok) ==
  \E i \in 1..Len(pollFetches[p]) :
    /\ pollFetches' =
         [pollFetches EXCEPT ![p] = SubSeq(@, 1, i - 1) \o SubSeq(@, i + 1, Len(@))]
    /\ IF ok /\ roomExists
       THEN /\ lastSeenSignals' = [lastSeenSignals EXCEPT ![p] = Len(relay)]
            /\ signalTasks' =
                 [signalTasks EXCEPT ![p] = @ \o Batch(SignalsFor(p, pollFetches[p][i]))]
       ELSE UNCHANGED <<lastSeenSignals, signalTasks>>
    /\ UNCHANGED <<provVars, startPollingPc, lookupCount, announcePc, gatherTimers,
                   relay, ctxVars>>
    /\ UNCHANGED auxVars

\* A mutant of createPeerConnection: no look at the table before the creation.
CreatePeerConnectionUnchecked(p, q) == pcCreated[p][q] + 1

\* createPeerConnection up to its insertion into the table: the Connections
\* created for q so far, one more if the table holds none for q.
CreatePeerConnection(p, q) ==
  IF peerConnections[p][q] # "none" THEN pcCreated[p][q] ELSE pcCreated[p][q] + 1

\* A mutant of handleSignal: every peer answers an announcement.
OffersOnAnnounceAnyRole(p) == TRUE

\* handleSignal for an announcement: createPeerConnection(signal.from, true)
\* is called if this.isHost, and nothing is done otherwise.
OffersOnAnnounce(p) == isHost(p)

\* A mutant of the loops over candidates: the first refusal ends the loop.
RECURSIVE AddIceCandidatesStopping(_, _)
AddIceCandidatesStopping(cands, bad) ==
  IF cands = <<>> \/ Head(cands) \in bad THEN <<>>
  ELSE <<Head(cands)>> \o AddIceCandidatesStopping(Tail(cands), bad)

\* The loops of handleOffer, handleAnswer and handleLegacyIceCandidate over
\* candidates: pc.addIceCandidate for each in turn inside a try/catch, so
\* that the candidates the Connection takes are those it does not refuse.
AddIceCandidates(cands, bad) == SelectSeq(cands, LAMBDA c : c \notin bad)

\* A mutant of the wait: no timeout is set.
SetGatherTimeoutNever(timers) == timers

\* setTimeout(resolve, 3000) of a wait for candidate gathering: one more
\* timeout is pending.
SetGatherTimeout(timers) == timers + 1

\* handleSignal for a signal that may start, up to the wait for candidate
\* gathering: createPeerConnection(from, true) for an announcement at the
\* host, handleOffer for an offer (the remote description is set, the
\* candidates of the bundle and then those buffered for the sender are
\* applied, and the buffer is deleted), handleAnswer for an answer (the
\* candidates of the bundle are applied), handleLegacyIceCandidate for a
\* candidate (applied if the table holds a Connection for the sender,
\* buffered otherwise). bad holds the candidates pc.addIceCandidate
\* refuses: the error is logged and the next candidate is tried.
HandleSignalFailing(p, bad) ==
  \E i \in 1..Len(signalTasks[p]) :
    /\ signalTasks[p][i].stage = "start"
    /\ LET s == signalTasks[p][i].signal
           Applied(cands) == AddIceCandidates(cands, bad)
           q == s.from
           announce == s.type = "offer" /\ s.payload = "announce"
           creates == CreatePeerConnection(p, q) # pcCreated[p][q]
           offers == announce /\ OffersOnAnnounce(p) /\ creates
           answers == s.type = "offer" /\ s.payload = "sdp"
           candidate == s.type = "ice-candidate"
           held == peerConnections[p][q] # "none"
       IN /\ peerConnections' =
               [peerConnections EXCEPT ![p][q] =
                  IF offers THEN "new"
                  ELSE IF answers /\ @ # "connected" THEN "connecting"
                  ELSE IF s.type = "answer" /\ @ = "new" THEN "connecting"
                  ELSE @]
          /\ pcCreated' =
               [pcCreated EXCEPT ![p][q] =
                  IF (announce /\ OffersOnAnnounce(p)) \/ answers
                  THEN CreatePeerConnection(p, q) ELSE @]
          /\ dataChannels' =
               [dataChannels EXCEPT ![p][q] = IF offers THEN "connecting" ELSE @]
          /\ appliedCandidates' =
               [appliedCandidates EXCEPT ![p][q] =
                  IF answers
                  THEN @ \o Applied(s.candidates) \o Applied(pendingIceCandidates[p][q])
                  ELSE IF s.type = "answer" /\ held THEN @ \o Applied(s.candidates)
                  ELSE IF candidate /\ held THEN @ \o Applied(<<s.payload>>)
                  ELSE @]
          /\ gathered' =
               [gathered EXCEPT ![p][q] =
                  IF ((announce /\ OffersOnAnnounce(p)) \/ answers) /\ creates
                  THEN <<>> ELSE @]
          /\ pendingIceCandidates' =
               [pendingIceCandidates EXCEPT ![p][q] =
                  IF answers THEN <<>>
                  ELSE IF candidate /\ ~held THEN Append(@, s.payload)
                  ELSE @]
          /\ gatherTimers' =
               [gatherTimers EXCEPT ![p] =
                  IF offers \/ answers THEN SetGatherTimeout(@) ELSE @]
          /\ signalTasks' =
               [signalTasks EXCEPT ![p] =
                  IF offers \/ answers THEN [@ EXCEPT ![i] = Task(s, "gather")]
                  ELSE Finish(@, i)]
    /\ UNCHANGED <<localhost, roomExists, clientID, created, destroyed, doc,
                   lastAppliedIndex, initialGameState, broadcastChannel,
                   useLocalFallback, updateHandler, stateRequestTimer,
                   connectedPeers, pollingInterval, onActionLog, stateReceived,
                   connectionChange, playersChange, channelQueue, broadcastQueue,
                   startPollingPc, lookupCount, pollFetches, announcePc,
                   lastSeenSignals, relay, ctxVars>>
    /\ UNCHANGED <<negotiationErrors, uncaught, awareness, hookVars, timerVars, outgoingIceCandidates,
                   detached>>

\* handleSignal when pc.addIceCandidate refuses no candidate.
HandleSignal(p) == HandleSignalFailing(p, {})

\* handleSignal for an offer or an answer whose description the browser
\* refuses: pc.setRemoteDescription throws. handleOffer has created the
\* Connection if the table held none, and its catch logs the error;
\* handleAnswer catches nothing, so the error ends the loop of pollSignals
\* over the signals of that response, in its catch.
HandleSignalError(p) ==
  \E i \in 1..Len(signalTasks[p]) :
    /\ signalTasks[p][i].stage = "start"
    /\ LET s == signalTasks[p][i].signal
           q == s.from
           offer == s.type = "offer" /\ s.payload = "sdp"
           answer == s.type = "answer" /\ peerConnections[p][q] # "none"
       IN /\ offer \/ answer
          /\ peerConnections' =
               [peerConnections EXCEPT ![p][q] =
                  IF offer /\ CreatePeerConnection(p, q) # pcCreated[p][q]
                  THEN "new" ELSE @]
          /\ pcCreated' =
               [pcCreated EXCEPT ![p][q] =
                  IF offer THEN CreatePeerConnection(p, q) ELSE @]
          /\ gathered' =
               [gathered EXCEPT ![p][q] =
                  IF offer /\ CreatePeerConnection(p, q) # pcCreated[p][q]
                  THEN <<>> ELSE @]
          /\ negotiationErrors' = [negotiationErrors EXCEPT ![p] = @ \cup {q}]
          /\ signalTasks' =
               [signalTasks EXCEPT ![p] = IF offer THEN Finish(@, i) ELSE Abort(@, i)]
    /\ UNCHANGED <<localhost, roomExists, clientID, created, destroyed, doc,
                   lastAppliedIndex, initialGameState, broadcastChannel,
                   useLocalFallback, updateHandler, stateRequestTimer,
                   connectedPeers, dataChannels, pollingInterval, onActionLog,
                   stateReceived, connectionChange, playersChange, channelQueue,
                   broadcastQueue, startPollingPc, lookupCount, pollFetches,
                   announcePc, gatherTimers, lastSeenSignals, relay, ctxVars,
                   pendingIceCandidates, appliedCandidates, uncaught, awareness, hookVars, timerVars,
                   outgoingIceCandidates, detached>>

\* The wait for candidate gathering of a handler ends, by the gathering
\* completing (byTimer false: the 3 s timeout stays pending) or by the
\* timeout; sendSignal posts the offer or the answer with the candidates
\* of the outgoing buffer for the peer, and the buffer is deleted.
GatherDone(p, byTimer) ==
  \E i \in Gathering(p) :
    LET q == signalTasks[p][i].signal.from
    IN /\ byTimer => gatherTimers[p] > 0
       /\ gatherTimers' = [gatherTimers EXCEPT ![p] = IF byTimer THEN @ - 1 ELSE @]
       /\ signalTasks' = [signalTasks EXCEPT ![p] = Finish(@, i)]
       /\ relay' =
            Append(relay,
                   Bundle(IF isHost(p) THEN "offer" ELSE "answer", p, q,
                          outgoingIceCandidates[p][q]))
       /\ outgoingIceCandidates' = [outgoingIceCandidates EXCEPT ![p][q] = <<>>]
       /\ UNCHANGED <<provVars, startPollingPc, lookupCount, pollFetches, announcePc,
                      lastSeenSignals, ctxVars, pendingIceCandidates,
                      appliedCandidates, pcCreated, negotiationErrors, uncaught,
                      gathered, awareness, hookVars, timerVars, detached>>

\* A gathering timeout fires when its wait is over already: nothing happens.
GatherTimeout(p) ==
  /\ gatherTimers[p] > Cardinality(Gathering(p))
  /\ gatherTimers' = [gatherTimers EXCEPT ![p] = @ - 1]
  /\ UNCHANGED <<provVars, startPollingPc, lookupCount, pollFetches, signalTasks,
                 announcePc, lastSeenSignals, relay, ctxVars>>
  /\ UNCHANGED auxVars

(***************************************************************************)
(* Teardown: destroy(), leaveRoom, the wait for the initial state          *)
(***************************************************************************)

\* joinRoom of a guest at the response of announcePresence's POST: connect()
\* returns and the provider is recorded.
AnnounceResponse(p) ==
  /\ ctxPc[p] = "announce"
  /\ announcePc[p] = "fetch"
  /\ announcePc' = [announcePc EXCEPT ![p] = "done"]
  /\ JoinRoomDone(p)
  /\ UNCHANGED <<provVars, startPollingPc, lookupCount, pollFetches, signalTasks,
                 gatherTimers, lastSeenSignals, relay, players, error,
                 initialState, joinAttempt, leftRoom>>
  /\ UNCHANGED auxVars

\* MultiplayerProvider.updateGameState(state): the cached snapshot is
\* replaced, whatever the role of the provider and whether or not it is
\* destroyed.
ProviderUpdateGameState(p, state) ==
  /\ created[p]
  /\ initialGameState' = [initialGameState EXCEPT ![p] = state]
  /\ UNCHANGED <<localhost, roomExists, clientID, created, destroyed, doc,
                 lastAppliedIndex, broadcastChannel, useLocalFallback,
                 updateHandler, stateRequestTimer, connectedPeers,
                 peerConnections, dataChannels, pollingInterval, onActionLog,
                 stateReceived, connectionChange, playersChange, channelQueue,
                 broadcastQueue, lifeVars, ctxVars>>
  /\ UNCHANGED auxVars

\* The context's updateGameState(state): the call reaches the provider only
\* while the role is 'host'.
UpdateGameState(p, state) ==
  /\ isHost(p)
  /\ ProviderUpdateGameState(p, state)

\* The provider part of destroy() on a live provider: the interval is
\* cleared, the Connections and the loopback channel are closed and dropped,
\* awareness.destroy() removes the local state, which notifies the players
\* observer, and doc.destroy() drops the document's update handler.
DestroyProvider(p) ==
  /\ destroyed' = [destroyed EXCEPT ![p] = TRUE]
  /\ awareness' = [awareness EXCEPT ![p] = NullState]
  /\ pollingInterval' = [pollingInterval EXCEPT ![p] = FALSE]
  /\ peerConnections' = [peerConnections EXCEPT ![p] = [q \in Peers |-> "none"]]
  /\ dataChannels' = [dataChannels EXCEPT ![p] = [q \in Peers |-> "none"]]
  /\ broadcastChannel' = [broadcastChannel EXCEPT ![p] = FALSE]
  /\ updateHandler' = [updateHandler EXCEPT ![p] = FALSE]
  /\ playersChange' = [playersChange EXCEPT ![p] = Roster(p, connectedPeers[p])]
  /\ UNCHANGED <<localhost, roomExists, clientID, created, doc, lastAppliedIndex,
                 initialGameState, useLocalFallback, stateRequestTimer,
                 connectedPeers, onActionLog, stateReceived, connectionChange,
                 channelQueue, broadcastQueue, lifeVars, hookVars, timerVars>>

\* destroy(), called by whoever holds the provider.
Destroy(p) ==
  /\ created[p]
  /\ IF destroyed[p] THEN UNCHANGED vars
     ELSE /\ DestroyProvider(p)
          /\ players' = [players EXCEPT ![p] = Roster(p, connectedPeers[p])]
          /\ UNCHANGED <<ctxPc, connectionState, role, roomCode, error,
                         initialState, providerRef, joinAttempt, leftRoom, waitingForState,
                         waitTimer>>
  /\ UNCHANGED negVars

\* leaveRoom(): the recorded provider is destroyed and dropped, and the
\* context returns to its initial values.
LeaveRoomBody(p) ==
  /\ IF providerRef[p] /\ ~destroyed[p]
     THEN DestroyProvider(p)
     ELSE UNCHANGED <<provVars, lifeVars, awareness, hookVars, timerVars>>
  /\ providerRef' = [providerRef EXCEPT ![p] = FALSE]
  /\ connectionState' = [connectionState EXCEPT ![p] = "disconnected"]
  /\ role' = [role EXCEPT ![p] = "solo"]
  /\ roomCode' = [roomCode EXCEPT ![p] = FALSE]
  /\ players' = [players EXCEPT ![p] = <<>>]
  /\ error' = [error EXCEPT ![p] = FALSE]
  /\ initialState' = [initialState EXCEPT ![p] = "none"]
  /\ leftRoom' = [leftRoom EXCEPT ![p] = TRUE]
  /\ UNCHANGED joinAttempt

\* leaveRoom() called by the user from a running game.
LeaveRoom(p) ==
  /\ ctxPc[p] = "inRoom"
  /\ ~waitingForState[p]
  /\ LeaveRoomBody(p)
  /\ ctxPc' = [ctxPc EXCEPT ![p] = "left"]
  /\ UNCHANGED <<waitingForState, waitTimer>>
  /\ UNCHANGED negVars

\* CoopModal's 60 s timeout while waiting for the initial state. The 100 ms
\* state-request delay, started before the wait, has run out by then.
WaitTimeout(p) ==
  /\ waitTimer[p]
  /\ waitingForState[p]
  /\ initialState[p] = "none"
  /\ ~stateRequestTimer[p]
  /\ LeaveRoomBody(p)
  /\ ctxPc' = [ctxPc EXCEPT ![p] = "timedOut"]
  /\ waitingForState' = [waitingForState EXCEPT ![p] = FALSE]
  /\ waitTimer' = [waitTimer EXCEPT ![p] = FALSE]
  /\ UNCHANGED negVars

\* A host and a guest from before the room exists to after they left it, on
\* localhost or on a deployed origin, with every asynchronous completion a
\* step of its own.
InitLife ==
  /\ localhost \in BOOLEAN
  /\ clientID = [p \in Peers |-> IF p = "H" THEN 1 ELSE IF p = "G1" THEN 2 ELSE 3]
  /\ Blank

NextLife ==
  \/ \E p \in PairPeers : CreateRoomCall(p)
  \/ \E p \in PairPeers, ok \in BOOLEAN : CreateRoomResponse(p, ok)
  \/ \E p \in PairPeers : JoinRoomCall(p)
  \/ \E p \in PairPeers, o \in {"ok", "notfound", "error"}, d \in BOOLEAN :
       JoinLookupResponse(p, o, d)
  \/ \E p \in PairPeers : JoinRetry(p)
  \/ \E p \in PairPeers : AnnounceResponse(p)
  \/ \E p \in PairPeers, ok \in BOOLEAN : LookupResponse(p, ok)
  \/ \E p \in PairPeers : LookupRejects(p)
  \/ \E p \in PairPeers : LookupSleep(p)
  \/ \E p \in PairPeers : PollTick(p)
  \/ \E p \in PairPeers, ok \in BOOLEAN : PollResponse(p, ok)
  \/ \E p \in PairPeers : HandleSignal(p)
  \/ \E p \in PairPeers, t \in BOOLEAN : GatherDone(p, t)
  \/ \E p \in PairPeers : GatherTimeout(p)
  \/ \E p \in PairPeers : StateRequestTimer(p)
  \/ \E p, q \in PairPeers : BroadcastReceive(p, q)
  \/ \E p, q \in PairPeers : PcConnected(p, q)
  \/ \E p, q \in PairPeers : OnDataChannel(p, q)
  \/ \E p, q \in PairPeers : ChannelOpen(p, q)
  \/ \E p, q \in PairPeers : ChannelMessage(p, q)
  \/ \E p \in PairPeers : Destroy(p)
  \/ \E p \in PairPeers : WaitTimeout(p)

SpecLife == InitLife /\ [][NextLife]_vars

(***************************************************************************)
(* The public methods of a provider, before and after destroy()            *)
(***************************************************************************)

\* How many edits (appends, metadata sets) the peers of SpecDestroy make.
MaxCalls == 1

\* dispatchAction and setMeta while the calls stay within the bound.
DispatchCall(p, type) ==
  /\ TotalEdits < MaxCalls
  /\ Dispatch(p, type)

SetMetaCall(p, key, value) ==
  /\ TotalEdits < MaxCalls
  /\ SetMeta(p, key, value)

\* A connected room whose peers call the public methods, leave the room and
\* destroy their providers while messages are in flight.
InitDestroy ==
  /\ InitConnected(TRUE) \/ InitConnected(FALSE)
  /\ clientID = [p \in Peers |-> IF p = "H" THEN 1 ELSE IF p = "G1" THEN 2 ELSE 3]

NextDestroy ==
  \/ \E p \in Peers, s \in GameStates : UpdateGameState(p, s)
  \/ \E p \in Peers, t \in ActionTypes : DispatchCall(p, t)
  \/ \E p \in Peers, k \in SetMetaKeys, v \in SetMetaValues : SetMetaCall(p, k, v)
  \/ \E p, q \in Peers : BroadcastReceive(p, q)
  \/ \E p, q \in Peers : ChannelMessage(p, q)
  \/ \E p \in Peers : Destroy(p)
  \/ \E p \in Peers : LeaveRoom(p)

SpecDestroy == InitDestroy /\ [][NextDestroy]_vars

\* C7: once a provider is destroyed it stays destroyed, and no call of a
\* public method changes its document, watermark, cached snapshot, roster or
\* transports, sends a message or invokes an observer.
C7_DestroyFinal ==
  [][\A p \in Peers :
       destroyed[p] =>
         /\ destroyed'[p]
         /\ doc'[p] = doc[p]
         /\ lastAppliedIndex'[p] = lastAppliedIndex[p]
         /\ initialGameState'[p] = initialGameState[p]
         /\ connectedPeers'[p] = connectedPeers[p]
         /\ peerConnections'[p] = peerConnections[p]
         /\ dataChannels'[p] = dataChannels[p]
         /\ broadcastChannel'[p] = broadcastChannel[p]
         /\ pollingInterval'[p] = pollingInterval[p]
         /\ \A q \in Peers :
              /\ Len(channelQueue'[<<p, q>>]) <= Len(channelQueue[<<p, q>>])
              /\ Len(broadcastQueue'[<<p, q>>]) <= Len(broadcastQueue[<<p, q>>])
         /\ onActionLog'[p] = onActionLog[p]
         /\ stateReceived'[p] = stateReceived[p]
         /\ connectionChange'[p] = connectionChange[p]
         /\ playersChange'[p] = playersChange[p]]_vars

\* C8: after destroy() no polling timer is started, no Connection is
\* created, no relay request or signal and no channel message is sent, and
\* no observer is notified, whatever asynchronous work was in flight.
C8_NothingAfterDestroy ==
  [][\A p \in Peers :
       destroyed[p] =>
         /\ pollingInterval'[p] => pollingInterval[p]
         /\ \A q \in Peers :
              peerConnections[p][q] = "none" => peerConnections'[p][q] = "none"
         /\ Len(pollFetches'[p]) <= Len(pollFetches[p])
         /\ \A i \in (Len(relay) + 1)..Len(relay') : relay'[i].from # p
         /\ \A q \in Peers :
              /\ Len(channelQueue'[<<p, q>>]) <= Len(channelQueue[<<p, q>>])
              /\ Len(broadcastQueue'[<<p, q>>]) <= Len(broadcastQueue[<<p, q>>])
         /\ onActionLog'[p] = onActionLog[p]
         /\ stateReceived'[p] = stateReceived[p]
         /\ connectionChange'[p] = connectionChange[p]
         /\ playersChange'[p] = playersChange[p]]_vars

\* C9: a guest whose wait for the initial state timed out is in a clean
\* left state: provider destroyed, context disconnected / solo / no room
\* code / no players, no Connection, and no poll interval, gathering timeout
\* or delayed state-request pending.
C9_CleanLeft ==
  \A p \in Peers :
    ctxPc[p] = "timedOut" =>
      /\ destroyed[p]
      /\ connectionState[p] = "disconnected"
      /\ role[p] = "solo"
      /\ ~roomCode[p]
      /\ players[p] = <<>>
      /\ \A q \in Peers : peerConnections[p][q] = "none"
      /\ ~pollingInterval[p]
      /\ gatherTimers[p] = 0
      /\ ~stateRequestTimer[p]

(***************************************************************************)
(* The cached snapshot and the replies to state-request                    *)
(***************************************************************************)

\* What updateGameState is called with in a run of SpecSnapshot: a snapshot,
\* or null, which clears the cache.
SnapshotValues == GameStates \cup {"none"}

\* A connected room whose guests' state-requests are under way, while the
\* game replaces or clears the host's snapshot at any moment.
InitSnapshot ==
  /\ InitHandshake(TRUE, TRUE) \/ InitHandshake(FALSE, TRUE)
  /\ clientID = [p \in Peers |-> IF p = "H" THEN 1 ELSE IF p = "G1" THEN 2 ELSE 3]

NextSnapshot ==
  \/ \E p \in Peers, s \in SnapshotValues : UpdateGameState(p, s)
  \/ \E p \in Peers : StateRequestTimer(p)
  \/ \E p, q \in Peers : BroadcastReceive(p, q)
  \/ \E p, q \in Peers : ChannelMessage(p, q)

SpecSnapshot == InitSnapshot /\ [][NextSnapshot]_vars

\* The state-sync the host sends for the snapshot it holds.
StateSync(p) == Message("state-sync", p, {}, initialGameState[p])

MaxCandidates == 2

\* How many polls of one peer may await their response when responses are
\* slow: with two, a signal is handed to handleSignal by both.
MaxOverlap == 2

CandidateNames == <<"c1", "c2", "c3", "c4">>

\* The separate ice-candidate signals stored by the relay so far.
CandidateSignals == SelectSeq(relay, LAMBDA s : s.type = "ice-candidate")

\* A peer that speaks the legacy protocol posts a candidate for p under the
\* peer id q, as a signal of its own.
LegacyCandidate(q, p) ==
  /\ p # q
  /\ created[p]
  /\ Len(CandidateSignals) < MaxCandidates
  /\ relay' =
       Append(relay,
              Signal("ice-candidate", q, p, CandidateNames[Len(CandidateSignals) + 1]))
  /\ UNCHANGED <<provVars, startPollingPc, lookupCount, pollFetches, signalTasks,
                 announcePc, gatherTimers, lastSeenSignals, ctxVars, auxVars>>

\* The POST of announcePresence reaches the relay.
AnnounceArrives(p) ==
  /\ announcePc[p] = "fetch"
  /\ \A i \in 1..Len(relay) : ~(relay[i].from = p /\ relay[i].payload = "announce")
  /\ relay' = Append(relay, Signal("offer", p, "all", "announce"))
  /\ UNCHANGED <<provVars, startPollingPc, lookupCount, pollFetches, signalTasks,
                 announcePc, gatherTimers, lastSeenSignals, ctxVars, auxVars>>

PollTickOverlap(p) == PollTickUpTo(p, MaxOverlap)

\* A host and a guest on a deployed origin: the host polls the relay, the
\* guest has started its interval and its first poll, and its announcement
\* is on its way to the relay.
InitNegotiate ==
  /\ NegBlank
  /\ awareness = [p \in Peers |-> IF p \in PairPeers THEN LocalState(p) ELSE NullState]
  /\ HookBlank
  /\ TimerBlank
  /\ localhost = FALSE
  /\ roomExists = TRUE
  /\ clientID = [p \in Peers |-> IF p = "H" THEN 1 ELSE IF p = "G1" THEN 2 ELSE 3]
  /\ created = [p \in Peers |-> p \in PairPeers]
  /\ destroyed = [p \in Peers |-> FALSE]
  /\ doc = [p \in Peers |-> IF isHost(p) THEN HostMeta(clientID[p]) ELSE EmptyDoc]
  /\ lastAppliedIndex = [p \in Peers |-> 0]
  /\ initialGameState = [p \in Peers |-> IF isHost(p) THEN "S0" ELSE "none"]
  /\ broadcastChannel = [p \in Peers |-> FALSE]
  /\ useLocalFallback = [p \in Peers |-> FALSE]
  /\ updateHandler = [p \in Peers |-> FALSE]
  /\ stateRequestTimer = [p \in Peers |-> FALSE]
  /\ connectedPeers = [p \in Peers |-> {}]
  /\ peerConnections = [p \in Peers |-> [q \in Peers |-> "none"]]
  /\ dataChannels = [p \in Peers |-> [q \in Peers |-> "none"]]
  /\ pollingInterval = [p \in Peers |-> p \in PairPeers]
  /\ onActionLog = [p \in Peers |-> <<>>]
  /\ stateReceived = [p \in Peers |-> <<>>]
  /\ connectionChange = [p \in Peers |-> IF p \in PairPeers THEN 1 ELSE 0]
  /\ playersChange = [p \in Peers |-> IF p \in PairPeers THEN Roster(p, {}) ELSE <<>>]
  /\ channelQueue = [pr \in Pairs |-> <<>>]
  /\ broadcastQueue = [pr \in Pairs |-> <<>>]
  /\ startPollingPc = [p \in Peers |-> IF p \in PairPeers THEN "done" ELSE "none"]
  /\ lookupCount = [p \in Peers |-> 0]
  /\ pollFetches = [p \in Peers |-> IF p = "G1" THEN <<0>> ELSE <<>>]
  /\ signalTasks = [p \in Peers |-> <<>>]
  /\ announcePc = [p \in Peers |-> IF p = "G1" THEN "fetch" ELSE "none"]
  /\ gatherTimers = [p \in Peers |-> 0]
  /\ lastSeenSignals = [p \in Peers |-> 0]
  /\ relay = <<>>
  /\ ctxPc = [p \in Peers |-> IF isHost(p) THEN "inRoom" ELSE IF p = "G1" THEN "announce" ELSE "idle"]
  /\ connectionState = [p \in Peers |-> IF p \in PairPeers THEN "connected" ELSE "disconnected"]
  /\ role = [p \in Peers |-> IF isHost(p) THEN "host" ELSE "solo"]
  /\ roomCode = [p \in Peers |-> isHost(p)]
  /\ players = [p \in Peers |-> IF p \in PairPeers THEN Roster(p, {}) ELSE <<>>]
  /\ error = [p \in Peers |-> FALSE]
  /\ initialState = [p \in Peers |-> "none"]
  /\ providerRef = [p \in Peers |-> isHost(p)]
  /\ joinAttempt = [p \in Peers |-> 0]
  /\ leftRoom = [p \in Peers |-> FALSE]
  /\ waitingForState = [p \in Peers |-> FALSE]
  /\ waitTimer = [p \in Peers |-> FALSE]

NextNegotiate ==
  \/ \E p \in PairPeers : AnnounceArrives(p)
  \/ \E p, q \in PairPeers : LegacyCandidate(q, p)
  \/ \E p \in PairPeers : PollTick(p)
  \/ \E p \in PairPeers : PollResponse(p, TRUE)
  \/ \E p \in PairPeers : HandleSignal(p)
  \/ \E p \in PairPeers : HandleSignalError(p)
  \/ \E p \in PairPeers : GatherDone(p, TRUE)
  \/ \E p, q \in PairPeers : PcConnected(p, q)

SpecNegotiate == InitNegotiate /\ [][NextNegotiate]_vars

\* The same room with slow responses: a tick of the interval finds the poll
\* before it unanswered, so that both carry the same cursor and the relay
\* hands the same signal to both.
NextOverlap ==
  \/ \E p \in PairPeers : AnnounceArrives(p)
  \/ \E p \in PairPeers : PollTickOverlap(p)
  \/ \E p \in PairPeers : PollResponse(p, TRUE)
  \/ \E p \in PairPeers : HandleSignal(p)
  \/ \E p \in PairPeers : GatherDone(p, TRUE)
  \/ \E p, q \in PairPeers : PcConnected(p, q)

SpecOverlap == InitNegotiate /\ [][NextOverlap]_vars

\* C12: when a Connection for a peer is created, the candidates buffered
\* for that peer are applied to it, each once and in the order of their
\* arrival, and the buffer for that peer is empty afterwards.
C12_BufferedApplied ==
  [][\A p \in Peers : \A q \in Peers :
       pcCreated'[p][q] > pcCreated[p][q] =>
         /\ appliedCandidates'[p][q] =
              appliedCandidates[p][q] \o pendingIceCandidates[p][q]
         /\ pendingIceCandidates'[p][q] = <<>>]_vars


\* C13: the table of a peer holds at most one Connection per remote peer:
\* no handler creates a Connection for a remote peer while the table holds
\* one for it, whichever handlers overlap.
C13_OneConnection ==
  [][\A p \in Peers : \A q \in Peers :
       peerConnections[p][q] # "none" => pcCreated'[p][q] = pcCreated[p][q]]_vars

\* C13's case: two handlers for the same remote peer wait for candidate
\* gathering at the same time, and one Connection was created for that peer.
C13_Witness ==
  \E p \in Peers : \E i, j \in Gathering(p) :
    /\ i # j
    /\ signalTasks[p][i].signal.from = signalTasks[p][j].signal.from
    /\ pcCreated[p][signalTasks[p][i].signal.from] = 1


(***************************************************************************)
(* The end of relay polling                                                *)
(***************************************************************************)

\* How many announcements of one guest reach the relay.
MaxAnnounces == 1

\* The announcements of p stored by the relay so far.
Announcements(p) ==
  SelectSeq(relay, LAMBDA s : s.from = p /\ s.payload = "announce")

\* A mutant of the handler: loopback is enabled at every loss.
FallsBackAlways(p) == TRUE

\* The test of the handler before enableLocalFallback(): a loopback channel
\* exists and loopback is not in use.
FallsBack(p) == broadcastChannel[p] /\ ~useLocalFallback[p]

\* pc.onconnectionstatechange at p with 'disconnected' or 'failed' for the
\* Connection to q: the peer leaves the connected set, the table and the
\* channels, updateConnectionStatus() notifies, and the loopback transport
\* is enabled if a loopback channel exists and is not in use yet. Nothing
\* closes the RTCPeerConnection or its channel: the browser keeps both. A
\* Connection that was connected is taken to be 'disconnected', a state it
\* may leave again, and one that was not to be 'failed' for good.
PcDisconnected(p, q) ==
  /\ peerConnections[p][q] \in {"connecting", "connected"}
  /\ connectedPeers' = [connectedPeers EXCEPT ![p] = @ \ {q}]
  /\ peerConnections' = [peerConnections EXCEPT ![p][q] = "none"]
  /\ dataChannels' = [dataChannels EXCEPT ![p][q] = "none"]
  /\ detached' =
       [detached EXCEPT ![p][q] =
          [pc |-> IF peerConnections[p][q] = "connected" THEN "disconnected" ELSE "failed",
           channel |-> dataChannels[p][q]]]
  /\ connectionChange' =
       [connectionChange EXCEPT ![p] = Cardinality(connectedPeers[p] \ {q}) + 1]
  /\ playersChange' = [playersChange EXCEPT ![p] = Roster(p, connectedPeers[p] \ {q})]
  /\ connectionState' = [connectionState EXCEPT ![p] = "connected"]
  /\ players' = [players EXCEPT ![p] = Roster(p, connectedPeers[p] \ {q})]
  /\ IF FallsBack(p)
     THEN /\ useLocalFallback' = [useLocalFallback EXCEPT ![p] = TRUE]
          /\ updateHandler' = [updateHandler EXCEPT ![p] = TRUE]
          /\ stateRequestTimer' = [stateRequestTimer EXCEPT ![p] = ~isHost(p)]
          /\ broadcastQueue' =
               BroadcastPost(broadcastQueue, p, <<Message("awareness", p, {}, "none")>>)
     ELSE UNCHANGED <<useLocalFallback, updateHandler, stateRequestTimer, broadcastQueue>>
  /\ UNCHANGED <<localhost, roomExists, clientID, created, destroyed, doc,
                 lastAppliedIndex, initialGameState, broadcastChannel,
                 pollingInterval, onActionLog, stateReceived, channelQueue,
                 lifeVars, ctxPc, role, roomCode, error, initialState, providerRef,
                 joinAttempt, leftRoom, waitingForState, waitTimer, awareness, hookVars, timerVars,
                 pendingIceCandidates, appliedCandidates, pcCreated,
                 negotiationErrors, uncaught, outgoingIceCandidates, gathered>>

\* connect() called on a provider whose earlier connect() has returned and
\* whose startPolling is not under way: the notifications, then on localhost
\* enableLocalFallback() (which returns at once when the loopback transport
\* is in use), elsewhere startSignalPolling() (which returns at once while
\* the interval exists) and a guest's announcePresence().
ConnectCall(p) ==
  /\ created[p]
  /\ startPollingPc[p] \in {"none", "done"}
  /\ announcePc[p] # "fetch"
  /\ IF destroyed[p] THEN UNCHANGED vars
     ELSE /\ connectionChange' = [connectionChange EXCEPT ![p] = 1]
          /\ playersChange' = [playersChange EXCEPT ![p] = Roster(p, connectedPeers[p])]
          /\ connectionState' = [connectionState EXCEPT ![p] = "connected"]
          /\ players' = [players EXCEPT ![p] = Roster(p, connectedPeers[p])]
          /\ IF localhost
             THEN UNCHANGED <<pollingInterval, startPollingPc, lookupCount,
                              pollFetches, relay, orphanTimers>>
             ELSE /\ Len(Announcements(p)) < MaxAnnounces
                  /\ IF pollingInterval[p]
                     THEN UNCHANGED <<pollingInterval, startPollingPc, lookupCount,
                                      pollFetches, orphanTimers>>
                     ELSE IF isHost(p)
                     THEN /\ startPollingPc' = [startPollingPc EXCEPT ![p] = "fetch"]
                          /\ lookupCount' = [lookupCount EXCEPT ![p] = 0]
                          /\ UNCHANGED <<pollingInterval, pollFetches, orphanTimers>>
                     ELSE /\ StartInterval(p)
                          /\ UNCHANGED lookupCount
                  /\ relay' = IF Announces(p)
                              THEN Append(relay, Signal("offer", p, "all", "announce"))
                              ELSE relay
          /\ UNCHANGED <<localhost, roomExists, clientID, created, destroyed, doc,
                         lastAppliedIndex, initialGameState, broadcastChannel,
                         useLocalFallback, updateHandler, stateRequestTimer,
                         connectedPeers, peerConnections, dataChannels, onActionLog,
                         stateReceived, channelQueue, broadcastQueue, signalTasks,
                         announcePc, gatherTimers, lastSeenSignals, ctxPc, role,
                         roomCode, error, initialState, providerRef, joinAttempt, leftRoom,
                         waitingForState, waitTimer, negVars, awareness, hookVars,
                         secondLoop>>

\* A host and a guest that negotiate through the relay, connect, lose the
\* Connection and call connect() again.
NextPolling ==
  \/ \E p \in PairPeers : AnnounceArrives(p)
  \/ \E p \in PairPeers : AnnounceResponse(p)
  \/ \E p \in PairPeers : PollTick(p)
  \/ \E p \in PairPeers : PollResponse(p, TRUE)
  \/ \E p \in PairPeers : HandleSignal(p)
  \/ \E p \in PairPeers : GatherDone(p, TRUE)
  \/ \E p, q \in PairPeers : PcConnected(p, q)
  \/ \E p, q \in PairPeers : PcDisconnected(p, q)
  \/ \E p \in PairPeers : ConnectCall(p)
  \/ \E p \in PairPeers, ok \in BOOLEAN : LookupResponse(p, ok)
  \/ \E p \in PairPeers : LookupSleep(p)

SpecPolling == InitNegotiate /\ [][NextPolling]_vars

\* Polling of p has been stopped by a Connection reaching connected: its
\* startPolling has ended and the live provider holds no interval.
PollingStopped(p) ==
  created[p] /\ ~destroyed[p] /\ startPollingPc[p] = "done" /\ ~pollingInterval[p]

\* C14: once polling has been stopped by a Connection reaching connected,
\* it stays stopped: no interval exists again, no lookup loop runs and no
\* further poll is issued, whether the peer disconnects later or a public
\* method is called.
C14_PollingStaysStopped ==
  [][\A p \in Peers :
       PollingStopped(p) =>
         /\ ~pollingInterval'[p]
         /\ startPollingPc'[p] = "done"
         /\ Len(pollFetches'[p]) <= Len(pollFetches[p])]_vars


\* startPolling of p is in its lookup loop.
LookingUp(p) == startPollingPc[p] \in {"fetch", "sleep"}

\* C15: on a live host the lookup loop never prevents polling: it makes at
\* most six lookups, and whatever their outcomes it ends with the interval
\* started and one poll issued.
C15_LookupEndsInPolling ==
  [][\A p \in Peers :
       (~destroyed[p] /\ LookingUp(p)) =>
         /\ lookupCount'[p] <= LookupAttempts
         /\ ~LookingUp(p)' =>
              /\ pollingInterval'[p]
              /\ Len(pollFetches'[p]) = Len(pollFetches[p]) + 1]_vars


\* C16: when the description of an offer or an answer cannot be applied,
\* the Connection to its sender is failed: the table holds no Connection for
\* the sender and the sender is not in the connected set.
C16_ErrorFailsConnection ==
  [][\A p \in Peers : \A q \in Peers :
       (q \in negotiationErrors'[p] /\ q \notin negotiationErrors[p]) =>
         /\ peerConnections'[p][q] = "none"
         /\ q \notin connectedPeers'[p]]_vars


(***************************************************************************)
(* Messages that are no protocol message                                   *)
(***************************************************************************)

\* How many malformed messages are in flight at a time.
MaxMalformed == 1

\* "null": no object at all (null on the loopback channel, text that is no
\* JSON on a direct channel); "unknown": an object of a kind the protocol
\* does not know; "badupdate": an update whose bytes are no Y.js update.
MalformedKinds == {"null", "unknown", "badupdate"}

Malformed(msg) == msg.type \in MalformedKinds

\* The malformed messages in flight.
MalformedInFlight ==
  LET count(f) == Len(SelectSeq(f, Malformed))
      RECURSIVE Sum(_)
      Sum(S) == IF S = {} THEN 0
                ELSE LET pr == CHOOSE x \in S : TRUE
                     IN count(channelQueue[pr]) + count(broadcastQueue[pr])
                          + Sum(S \ {pr})
  IN Sum(Pairs)

\* A malformed message under the peer id q reaches p, on the open direct
\* channel between them or on the loopback channel of the room.
MalformedFrame(q, p, kind) ==
  /\ p # q
  /\ created[p] /\ ~destroyed[p]
  /\ MalformedInFlight < MaxMalformed
  /\ IF dataChannels[p][q] = "open"
     THEN /\ channelQueue' =
               [channelQueue EXCEPT ![<<q, p>>] = Append(@, Message(kind, q, {}, "none"))]
          /\ UNCHANGED broadcastQueue
     ELSE /\ broadcastChannel[p]
          /\ broadcastQueue' =
               [broadcastQueue EXCEPT ![<<q, p>>] = Append(@, Message(kind, q, {}, "none"))]
          /\ UNCHANGED channelQueue
  /\ UNCHANGED <<localhost, roomExists, clientID, created, destroyed, doc,
                 lastAppliedIndex, initialGameState, broadcastChannel,
                 useLocalFallback, updateHandler, stateRequestTimer,
                 connectedPeers, peerConnections, dataChannels, pollingInterval,
                 onActionLog, stateReceived, connectionChange, playersChange,
                 lifeVars, ctxVars, auxVars>>

\* A connected room, on either transport, whose peers receive malformed
\* messages between the messages of the protocol.
NextMalformed ==
  \/ \E p, q \in Peers, k \in MalformedKinds : MalformedFrame(q, p, k)
  \/ \E p \in Peers, t \in ActionTypes : DispatchCall(p, t)
  \/ \E p, q \in Peers : BroadcastReceive(p, q)
  \/ \E p, q \in Peers : ChannelMessage(p, q)

SpecMalformed == InitDestroy /\ [][NextMalformed]_vars

\* What a message may change at its receiver p, the reply to q included.
ReceiverState(p, q) ==
  <<doc[p], lastAppliedIndex[p], onActionLog[p], initialGameState[p],
    stateReceived[p], connectedPeers[p], dataChannels[p], broadcastChannel[p],
    useLocalFallback[p], channelQueue[<<p, q>>], broadcastQueue[<<p, q>>]>>

\* C17: a malformed message, on a direct channel or on the loopback
\* channel, is dropped: the receiver's log, metadata, snapshot, watermark
\* and channels are as before, nothing is sent in reply, and no exception
\* leaves the handler.
C17_MalformedDropped ==
  [][\A p \in Peers : \A q \in Peers \ {p} :
       /\ (/\ channelQueue[<<q, p>>] # <<>>
           /\ Malformed(Head(channelQueue[<<q, p>>]))
           /\ channelQueue'[<<q, p>>] = Tail(channelQueue[<<q, p>>]))
          => (ReceiverState(p, q)' = ReceiverState(p, q) /\ uncaught'[p] = uncaught[p])
       /\ (/\ broadcastQueue[<<q, p>>] # <<>>
           /\ Malformed(Head(broadcastQueue[<<q, p>>]))
           /\ broadcastQueue'[<<q, p>>] = Tail(broadcastQueue[<<q, p>>]))
          => (ReceiverState(p, q)' = ReceiverState(p, q) /\ uncaught'[p] = uncaught[p])]_vars


\* The POST of p's announcement has ended without the relay storing it.
AnnouncementLost(p) ==
  ~isHost(p) /\ created[p] /\ announcePc[p] = "done" /\ Announcements(p) = <<>>

\* C18: a failure of the relay transport is retried on the next tick and
\* never surfaced: the response of a poll leaves the cursor where it was or
\* moves it to the end of the stored signals, keeps the interval and sets
\* no error, and a tick of a live peer whose announcement was lost posts
\* the announcement again.
C18_RetriedNextTick ==
  [][\A p \in Peers :
       /\ Len(pollFetches'[p]) < Len(pollFetches[p]) =>
            /\ lastSeenSignals'[p] \in {lastSeenSignals[p], Len(relay)}
            /\ pollingInterval'[p] = pollingInterval[p]
            /\ error'[p] = error[p]
       /\ (/\ ~destroyed[p]
           /\ AnnouncementLost(p)
           /\ Len(pollFetches'[p]) > Len(pollFetches[p]))
          => Announcements(p)' # <<>>]_vars


(***************************************************************************)
(* Failures of createRoom and joinRoom                                     *)
(***************************************************************************)

\* createRoom or joinRoom of p has rejected.
Rejected(p) == ctxPc[p] = "failed"

Dispatches(p) ==
  Cardinality(OwnOps(doc'[p], p)) > Cardinality(OwnOps(doc[p], p))

\* The messages channel f has gained in the step.
Sent(f, g) == SubSeq(g, Len(f) + 1, Len(g))

\* One update message that carries the state of p's document after the step.
OneUpdate(p, msgs) ==
  /\ Len(msgs) = 1
  /\ msgs[1].type = "update"
  /\ msgs[1].data = EncodeStateAsUpdate(doc'[p])

MaxRequests == 1

\* The state-requests in flight on the direct channels towards guests.
RequestsInFlight ==
  Cardinality({pr \in Pairs :
                 /\ ~isHost(pr[2])
                 /\ \E i \in 1..Len(channelQueue[pr]) :
                      channelQueue[pr][i].type = "state-request"})

\* A state-request under the peer id q reaches the guest p on the open
\* direct channel between them.
StateRequestFrame(q, p) ==
  /\ p # q
  /\ ~isHost(p)
  /\ created[p] /\ ~destroyed[p]
  /\ dataChannels[p][q] = "open"
  /\ RequestsInFlight < MaxRequests
  /\ channelQueue' =
       [channelQueue EXCEPT ![<<q, p>>] = Append(@, Message("state-request", q, {}, "none"))]
  /\ UNCHANGED <<localhost, roomExists, clientID, created, destroyed, doc,
                 lastAppliedIndex, initialGameState, broadcastChannel,
                 useLocalFallback, updateHandler, stateRequestTimer,
                 connectedPeers, peerConnections, dataChannels, pollingInterval,
                 onActionLog, stateReceived, connectionChange, playersChange,
                 broadcastQueue, lifeVars, ctxVars, auxVars>>

\* A connected room whose guests' state-requests are under way, while
\* updateGameState is called on the provider of the host and on the
\* providers of the guests, and state-requests reach the guests too.
NextHostOnly ==
  \/ \E p \in Peers, s \in SnapshotValues : ProviderUpdateGameState(p, s)
  \/ \E p \in Peers : StateRequestTimer(p)
  \/ \E p, q \in Peers : StateRequestFrame(q, p)
  \/ \E p, q \in Peers : BroadcastReceive(p, q)
  \/ \E p, q \in Peers : ChannelMessage(p, q)

SpecHostOnly == InitSnapshot /\ [][NextHostOnly]_vars

\* The messages p has sent to q in the step, on either transport.
SentTo(p, q) ==
  Range(Sent(channelQueue[<<p, q>>], channelQueue'[<<p, q>>]))
    \cup Range(Sent(broadcastQueue[<<p, q>>], broadcastQueue'[<<p, q>>]))

\* What the owner of provider p and its peers can observe of it.
Observable(p) ==
  <<doc[p], lastAppliedIndex[p], onActionLog[p], stateReceived[p],
    connectionChange[p], playersChange[p], connectedPeers[p],
    [q \in Peers |-> channelQueue[<<p, q>>]],
    [q \in Peers |-> broadcastQueue[<<p, q>>]]>>

\* C21: every state-sync sent in a step comes from the host and carries the
\* snapshot updateGameState set there last, and a step that replaces the
\* snapshot of a guest's provider changes nothing that can be observed of
\* it; so a guest never sends a state-sync, on a direct channel or on the
\* loopback channel, whatever calls and state-requests it sees.
C21_HostOnlyEffect ==
  [][\A p \in Peers :
       /\ \A q \in Peers \ {p} : \A m \in SentTo(p, q) :
            m.type = "state-sync" =>
              /\ isHost(p)
              /\ m.state = initialGameState[p]
              /\ m.state # "none"
       /\ (~isHost(p) /\ initialGameState'[p] # initialGameState[p])
            => Observable(p)' = Observable(p)]_vars

\* C21's case: a guest holds a snapshot that updateGameState gave its
\* provider, the state-request of the other guest has reached it and is
\* handled, nothing of the guest is in flight, and the requester has
\* received from the host the snapshot S1 that replaced S0 there.
C21_Witness ==
  \E r \in Guests : \E q \in Guests \ {r} :
    /\ initialGameState[r] = "S1"
    /\ localhost /\ ~stateRequestTimer[q]
    /\ broadcastQueue[<<q, r>>] = <<>>
    /\ \A x \in Peers : broadcastQueue[<<r, x>>] = <<>>
    /\ initialGameState[Host] = "S1"
    /\ stateReceived[q] = <<"S1">>


(***************************************************************************)
(* connect()                                                               *)
(***************************************************************************)

\* A host and a guest, on localhost or on a deployed origin, from before
\* their providers exist: the providers are created and connected, connect()
\* is called on them again, and they are destroyed at any moment.
NextConnect ==
  \/ \E p \in PairPeers : CreateRoomCall(p)
  \/ \E p \in PairPeers : CreateRoomResponse(p, TRUE)
  \/ \E p \in PairPeers : JoinRoomCall(p)
  \/ \E p \in PairPeers, d \in BOOLEAN : JoinLookupResponse(p, "ok", d)
  \/ \E p \in PairPeers : AnnounceResponse(p)
  \/ \E p \in PairPeers, ok \in BOOLEAN : LookupResponse(p, ok)
  \/ \E p \in PairPeers : LookupSleep(p)
  \/ \E p \in PairPeers : PollTick(p)
  \/ \E p \in PairPeers : PollResponse(p, TRUE)
  \/ \E p \in PairPeers : StateRequestTimer(p)
  \/ \E p, q \in PairPeers : BroadcastReceive(p, q)
  \/ \E p \in PairPeers : ConnectCall(p)
  \/ \E p \in PairPeers : Destroy(p)

SpecConnect == InitLife /\ [][NextConnect]_vars

\* The step is a connect() of p on a live provider: the one that follows
\* the construction, or a later call.
Connects(p) ==
  \/ ~created[p] /\ created'[p]
  \/ ~destroyed[p] /\ ConnectCall(p)

\* The step starts relay polling for p: the interval with its first poll
\* or, at a host, the lookups that precede it; or polling runs already.
StartsPolling(p) ==
  \/ pollingInterval[p] /\ pollingInterval'[p]
  \/ /\ ~pollingInterval[p] /\ pollingInterval'[p]
     /\ Len(pollFetches'[p]) = Len(pollFetches[p]) + 1
  \/ startPollingPc[p] # "fetch" /\ startPollingPc'[p] = "fetch"

\* The step leaves the relay polling of p as it was.
PollingUntouched(p) ==
  /\ pollingInterval'[p] = pollingInterval[p]
  /\ startPollingPc'[p] = startPollingPc[p]
  /\ pollFetches'[p] = pollFetches[p]

\* The step posts an announcement of p: the POST is under way or has
\* reached the relay.
PostsAnnounce(p) ==
  \/ announcePc[p] # "fetch" /\ announcePc'[p] = "fetch"
  \/ Len(Announcements(p)') > Len(Announcements(p))

\* C22: connect() on a live provider notifies onConnectionChange with peer
\* count 1 and then starts one transport: on localhost the loopback
\* transport is active afterwards, relay polling is as before and nothing is
\* posted to the relay; elsewhere the loopback transport stays off, relay
\* polling is started and an announcement is posted exactly by a guest. On
\* a destroyed provider connect() changes nothing.
C22_ConnectEffect ==
  [][\A p \in Peers :
       /\ (destroyed[p] /\ ConnectCall(p)) => UNCHANGED vars
       /\ Connects(p) =>
            /\ connectionChange'[p] = 1
            /\ IF localhost
               THEN /\ useLocalFallback'[p]
                    /\ PollingUntouched(p)
                    /\ ~PostsAnnounce(p)
                    /\ relay' = relay
               ELSE /\ ~useLocalFallback'[p]
                    /\ \A q \in Peers : broadcastQueue'[<<p, q>>] = broadcastQueue[<<p, q>>]
                    /\ StartsPolling(p)
                    /\ PostsAnnounce(p) <=> ~isHost(p)]_vars

\* C22's case: on a deployed origin the guest has connected, its interval
\* runs with the first poll and its announcement is being posted, while the
\* host, connected too, is in its lookups and has announced nothing.
C22_Witness ==
  /\ ~localhost
  /\ created["G1"] /\ pollingInterval["G1"] /\ announcePc["G1"] = "fetch"
  /\ pollFetches["G1"] # <<>>
  /\ created[Host] /\ startPollingPc[Host] = "fetch" /\ announcePc[Host] = "none"
  /\ Announcements(Host) = <<>>


(***************************************************************************)
(* The local presence record                                               *)
(***************************************************************************)

\* The fields of a presence record.
AwarenessFields == {"player", "cursor"}

\* The partial records updateAwareness is called with: any subset of the
\* fields, the player field naming any peer, this one or another.
Partials ==
  UNION {[fs -> Peers \cup {"c1", "c2"}] : fs \in SUBSET AwarenessFields}

\* A mutant of the merge: the update is spread last, over the player field.
MergeAwarenessUpdateLast(p, current, update) ==
  [f \in AwarenessFields |->
     IF f \in DOMAIN update THEN update[f]
     ELSE IF f = "player" THEN p
     ELSE current[f]]

\* { ...currentState, ...update, player: this.player }.
MergeAwareness(p, current, update) ==
  [f \in AwarenessFields |->
     IF f = "player" THEN p
     ELSE IF f \in DOMAIN update THEN update[f]
     ELSE current[f]]

\* updateAwareness(update): the merged record becomes the local state, and
\* the awareness 'change' listener notifies the players observer if the
\* record is not the one before.
UpdateAwareness(p, update) ==
  /\ created[p]
  /\ IF destroyed[p] THEN UNCHANGED vars
     ELSE LET merged == MergeAwareness(p, awareness[p], update)
          IN /\ awareness' = [awareness EXCEPT ![p] = merged]
             /\ IF merged # awareness[p]
                THEN /\ playersChange' =
                          [playersChange EXCEPT ![p] = Roster(p, connectedPeers[p])]
                     /\ players' = [players EXCEPT ![p] = Roster(p, connectedPeers[p])]
                ELSE UNCHANGED <<playersChange, players>>
             /\ UNCHANGED <<localhost, roomExists, clientID, created, destroyed, doc,
                            lastAppliedIndex, initialGameState, broadcastChannel,
                            useLocalFallback, updateHandler, stateRequestTimer,
                            connectedPeers, peerConnections, dataChannels,
                            pollingInterval, onActionLog, stateReceived,
                            connectionChange, channelQueue, broadcastQueue,
                            lifeVars, ctxPc, connectionState, role, roomCode, error,
                            initialState, providerRef, joinAttempt, leftRoom, waitingForState,
                            waitTimer, negVars, hookVars, timerVars>>

\* A connected room whose peers update their presence records and destroy
\* their providers.
NextAwareness ==
  \/ \E p \in Peers, u \in Partials : UpdateAwareness(p, u)
  \/ \E p \in Peers : Destroy(p)

SpecAwareness == InitDestroy /\ [][NextAwareness]_vars

\* C23: the presence record of a live provider names the provider's own
\* player, whatever partial records updateAwareness was called with, and
\* on a destroyed provider no step changes the record or notifies anybody.
C23_OwnIdentity ==
  [][\A p \in Peers :
       /\ (created'[p] /\ ~destroyed'[p]) => awareness'[p].player = p
       /\ destroyed[p] =>
            /\ awareness'[p] = awareness[p]
            /\ playersChange'[p] = playersChange[p]]_vars

\* C23's case: a live provider whose record carries a cursor that only an
\* updateAwareness call can have set, next to a destroyed one.
C23_Witness ==
  \E p \in Peers : \E q \in Peers \ {p} :
    /\ ~destroyed[p] /\ awareness[p].cursor = "G1" /\ awareness[p].player = p
    /\ destroyed[q] /\ awareness[q] = NullState


(***************************************************************************)
(* Bundled offers and answers: gathering, the wait, the bundle             *)
(***************************************************************************)

\* How many candidates one Connection gathers.
MaxGathered == 2

\* The candidates the Connections of a peer to one remote peer gather, in
\* order: those of the first Connection, then those of the one created after
\* it was removed, and so on.
LocalCandidateNames ==
  [p \in Peers |->
     IF isHost(p)
     THEN <<"h1", "h2", "h3", "h4", "h5", "h6", "h7", "h8", "h9", "h10", "h11", "h12">>
     ELSE IF p = "G1"
     THEN <<"g1", "g2", "g3", "g4", "g5", "g6", "g7", "g8", "g9", "g10", "g11", "g12">>
     ELSE <<"k1", "k2", "k3", "k4", "k5", "k6", "k7", "k8", "k9", "k10", "k11", "k12">>]

\* The next candidate of the Connection that p holds for q.
NextCandidate(p, q) ==
  LocalCandidateNames[p][(pcCreated[p][q] - 1) * MaxGathered + Len(gathered[p][q]) + 1]

\* A mutant of pc.onicecandidate: the candidate is not collected.
OnIceCandidateDrop(buffer, c) == buffer

\* pc.onicecandidate with a candidate: it is pushed onto the outgoing
\* buffer for the remote peer.
OnIceCandidate(buffer, c) == Append(buffer, c)

\* The Connection of p to q has a local description, so that it gathers:
\* the host's from its creation on, a guest's once handleOffer has reached
\* its wait.
HasLocalDescription(p, q) ==
  \/ peerConnections[p][q] \in {"connecting", "connected"}
  \/ isHost(p) /\ peerConnections[p][q] = "new"

\* The Connection of p to q gathers a candidate: pc.onicecandidate.
IceCandidate(p, q) ==
  /\ HasLocalDescription(p, q)
  /\ Len(gathered[p][q]) < MaxGathered
  /\ LET c == NextCandidate(p, q)
     IN /\ gathered' = [gathered EXCEPT ![p][q] = Append(@, c)]
        /\ outgoingIceCandidates' =
             [outgoingIceCandidates EXCEPT ![p][q] = OnIceCandidate(@, c)]
  /\ UNCHANGED <<provVars, lifeVars, ctxVars, pendingIceCandidates,
                 appliedCandidates, pcCreated, negotiationErrors, uncaught,
                 awareness, hookVars, timerVars, detached>>

\* A host and a guest that negotiate through the relay while their
\* Connections gather candidates; each wait ends by the gathering
\* completing or by its timeout.
NextBundle ==
  \/ \E p \in PairPeers : AnnounceArrives(p)
  \/ \E p \in PairPeers : PollTick(p)
  \/ \E p \in PairPeers : PollResponse(p, TRUE)
  \/ \E p \in PairPeers : HandleSignal(p)
  \/ \E p, q \in PairPeers : IceCandidate(p, q)
  \/ \E p \in PairPeers, t \in BOOLEAN : GatherDone(p, t)
  \/ \E p \in PairPeers : GatherTimeout(p)
  \/ \E p, q \in PairPeers : PcConnected(p, q)

SpecBundle == InitNegotiate /\ [][NextBundle]_vars

\* The bundles of the given type that p has posted for q.
Bundles(type, p, q) ==
  SelectSeq(relay, LAMBDA s : s.type = type /\ s.from = p /\ s.to = q /\ s.payload = "sdp")

\* The handlers of p that wait for the candidates of the Connection to q.
GatheringFor(p, q) == {i \in Gathering(p) : signalTasks[p][i].signal.from = q}


\* C24: the offering side posts one offer per Connection and posts it only
\* when a wait for that Connection's candidates ends (by completion or by
\* the timeout): at any moment its offers for a peer and its handlers still
\* waiting for that peer add up to the Connections created for it. The
\* offer carries every candidate the Connection has gathered by then, and
\* no candidate of a Connection is ever posted as a signal of its own.
C24_OneBundledOffer ==
  [][\A q \in Guests :
       /\ Len(Bundles("offer", Host, q))' + Cardinality(GatheringFor(Host, q))'
            = pcCreated'[Host][q]
       /\ Len(Bundles("offer", Host, q))' > Len(Bundles("offer", Host, q)) =>
            /\ Len(Bundles("offer", Host, q))' = Len(Bundles("offer", Host, q)) + 1
            /\ Cardinality(GatheringFor(Host, q))'
                 = Cardinality(GatheringFor(Host, q)) - 1
            /\ Range(gathered[Host][q]) \subseteq Range(relay'[Len(relay')].candidates)
       /\ \A i \in 1..Len(relay') :
            relay'[i].type = "ice-candidate" =>
              \A p \in Peers : relay'[i].payload \notin Range(LocalCandidateNames[p])]_vars

\* C24's case: the wait of the host is over and no timeout is pending; its
\* offer to the guest was posted with the one candidate gathered by then,
\* and the Connection has gathered another since, which is posted nowhere.
C24_Witness ==
  /\ gatherTimers[Host] = 0
  /\ Len(Bundles("offer", Host, "G1")) = 1
  /\ Bundles("offer", Host, "G1")[1].candidates = <<"h1">>
  /\ gathered[Host]["G1"] = <<"h1", "h2">>
  /\ Gathering(Host) = {}


(***************************************************************************)
(* The wait for candidates when gathering never completes                  *)
(***************************************************************************)

\* The same negotiation with Connections whose gathering never completes:
\* a wait can only end by its timeout, which the event loop fires once it
\* is due.
NextTimeout ==
  \/ \E p \in PairPeers : AnnounceArrives(p)
  \/ \E p \in PairPeers : PollTick(p)
  \/ \E p \in PairPeers : PollResponse(p, TRUE)
  \/ \E p \in PairPeers : HandleSignal(p)
  \/ \E p, q \in PairPeers : IceCandidate(p, q)
  \/ \E p \in PairPeers : GatherDone(p, TRUE)
  \/ \E p, q \in PairPeers : PcConnected(p, q)

SpecTimeout ==
  /\ InitNegotiate
  /\ [][NextTimeout]_vars
  /\ \A p \in PairPeers : WF_vars(GatherDone(p, TRUE))

\* What p posts when its wait for q ends: a host an offer, a guest an answer.
BundleType(p) == IF isHost(p) THEN "offer" ELSE "answer"

\* The candidates that the bundles of p to q have carried so far.
BundledCandidates(p, q) ==
  UNION {Range(Bundles(BundleType(p), p, q)[i].candidates) :
           i \in 1..Len(Bundles(BundleType(p), p, q))}

\* C25: a handler that waits for candidates always gets on: the host
\* posts its bundled offer and the guest its bundled answer although the
\* gathering never completes. The bundle carries candidates the Connection
\* gathered, and with it every candidate gathered by then has been posted;
\* the step that ends the wait records no error, throws nothing and leaves
\* the Connection in the table.
C25_WaitEnds ==
  /\ \A p \in PairPeers : \A q \in PairPeers \ {p} : \A n \in 0..3 :
       (GatheringFor(p, q) # {} /\ Len(Bundles(BundleType(p), p, q)) = n)
         ~> (Len(Bundles(BundleType(p), p, q)) > n)
  /\ [][\A p \in PairPeers : \A q \in PairPeers \ {p} :
          Len(Bundles(BundleType(p), p, q))' > Len(Bundles(BundleType(p), p, q)) =>
            /\ Range(relay'[Len(relay')].candidates) \subseteq Range(gathered[p][q])
            /\ Range(gathered[p][q]) \subseteq BundledCandidates(p, q)'
            /\ negotiationErrors' = negotiationErrors
            /\ uncaught' = uncaught
            /\ error' = error
            /\ peerConnections' = peerConnections]_vars

\* C25's case: both waits have ended by their timeouts, the offer and the
\* answer are posted, and the answer carries the one candidate the guest's
\* Connection had gathered.
C25_Witness ==
  /\ Gathering(Host) = {} /\ Gathering("G1") = {}
  /\ gatherTimers[Host] = 0 /\ gatherTimers["G1"] = 0
  /\ Len(Bundles("offer", Host, "G1")) = 1
  /\ Len(Bundles("answer", "G1", Host)) = 1
  /\ Bundles("answer", "G1", Host)[1].candidates = <<"g1">>


(***************************************************************************)
(* handleOffer step by step                                                *)
(***************************************************************************)

\* The candidates pc.addIceCandidate refuses (malformed ones): one that the
\* host gathers first and one that a legacy peer posts first.
RefusedCandidates == {"h1", "c1"}

\* A host and a guest that negotiate through the relay while the host's
\* Connection gathers candidates, a legacy peer posts candidates for the
\* guest as signals of their own, and some of the candidates are refused.
NextAnswer ==
  \/ \E p \in PairPeers : AnnounceArrives(p)
  \/ \E q \in PairPeers : LegacyCandidate(q, "G1")
  \/ \E p \in PairPeers : PollTick(p)
  \/ \E p \in PairPeers : PollResponse(p, TRUE)
  \/ \E p \in PairPeers : HandleSignalFailing(p, RefusedCandidates)
  \/ \E p, q \in PairPeers : IceCandidate(p, q)
  \/ \E p \in PairPeers : GatherDone(p, TRUE)
  \/ \E p, q \in PairPeers : PcConnected(p, q)

SpecAnswer == InitNegotiate /\ [][NextAnswer]_vars

\* The offers of q that handleSignal of p has not begun to handle.
OffersToHandle(p, q) ==
  {i \in 1..Len(signalTasks[p]) :
     /\ signalTasks[p][i].stage = "start"
     /\ signalTasks[p][i].signal.type = "offer"
     /\ signalTasks[p][i].signal.payload = "sdp"
     /\ signalTasks[p][i].signal.from = q}

\* C26: the step of a guest that takes up a bundled offer creates the
\* Connection if the table holds none, applies the remote description,
\* then the candidates of the bundle, then those buffered for the sender
\* (a refused candidate is skipped and the rest still applied), empties
\* the buffer, and waits for gathering with nothing posted yet; the end of
\* each such wait posts one bundled answer. The guest applies no candidate
\* to a Connection without a remote description.
C26_AnswerOrder ==
  [][\A p \in Guests : \A q \in Peers \ {p} :
       /\ Cardinality(OffersToHandle(p, q))' < Cardinality(OffersToHandle(p, q)) =>
            Cardinality(GatheringFor(p, q))' = Cardinality(GatheringFor(p, q)) + 1
       /\ \A i \in OffersToHandle(p, q) :
            (/\ Len(signalTasks'[p]) = Len(signalTasks[p])
             /\ signalTasks'[p][i] # signalTasks[p][i]) =>
              /\ signalTasks'[p][i] = Task(signalTasks[p][i].signal, "gather")
              /\ pcCreated'[p][q] =
                   pcCreated[p][q] + (IF peerConnections[p][q] = "none" THEN 1 ELSE 0)
              /\ peerConnections'[p][q] \in {"connecting", "connected"}
              /\ appliedCandidates'[p][q] =
                   appliedCandidates[p][q]
                     \o SelectSeq(signalTasks[p][i].signal.candidates,
                                  LAMBDA c : c \notin RefusedCandidates)
                     \o SelectSeq(pendingIceCandidates[p][q],
                                  LAMBDA c : c \notin RefusedCandidates)
              /\ pendingIceCandidates'[p][q] = <<>>
              /\ relay' = relay
       /\ Len(Bundles("answer", p, q))' > Len(Bundles("answer", p, q)) =>
            /\ Len(Bundles("answer", p, q))' = Len(Bundles("answer", p, q)) + 1
            /\ Cardinality(GatheringFor(p, q))' = Cardinality(GatheringFor(p, q)) - 1
            /\ relay'[Len(relay')].candidates = outgoingIceCandidates[p][q]
       /\ appliedCandidates'[p][q] # appliedCandidates[p][q] =>
            peerConnections'[p][q] \in {"connecting", "connected"}]_vars

\* C26's case: the guest has taken up an offer that bundled a refused and
\* an accepted candidate while a refused and an accepted candidate were
\* buffered for the host; it has applied the accepted ones, the bundled one
\* first, and has posted its one answer.
C26_Witness ==
  /\ appliedCandidates["G1"][Host] = <<"h2", "c2">>
  /\ pendingIceCandidates["G1"][Host] = <<>>
  /\ Len(Bundles("answer", "G1", Host)) = 1
  /\ Gathering("G1") = {}


(***************************************************************************)
(* Announcements                                                           *)
(***************************************************************************)

\* How many announcements of the second guest reach the relay.
MaxPeerAnnounces == 2

\* A second guest, whose provider runs in another browser, announces itself
\* to the room: announcePresence posts to the relay (once more after a later
\* connect()).
PeerAnnounces(q) ==
  /\ ~created[q]
  /\ Len(Announcements(q)) < MaxPeerAnnounces
  /\ relay' = Append(relay, Signal("offer", q, "all", "announce"))
  /\ UNCHANGED <<provVars, startPollingPc, lookupCount, pollFetches, signalTasks,
                 announcePc, gatherTimers, lastSeenSignals, ctxVars, auxVars>>

\* The host and the first guest poll the relay while both guests announce
\* themselves.
NextAnnounce ==
  \/ \E p \in PairPeers : AnnounceArrives(p)
  \/ \E q \in Guests \ PairPeers : PeerAnnounces(q)
  \/ \E p \in PairPeers : PollTick(p)
  \/ \E p \in PairPeers : PollResponse(p, TRUE)
  \/ \E p \in PairPeers : HandleSignal(p)
  \/ \E p \in PairPeers : GatherDone(p, TRUE)
  \/ \E p, q \in PairPeers : PcConnected(p, q)

SpecAnnounce == InitNegotiate /\ [][NextAnnounce]_vars

\* The announcements of q that handleSignal of p has not begun to handle.
AnnouncementsToHandle(p, q) ==
  {i \in 1..Len(signalTasks[p]) :
     /\ signalTasks[p][i].stage = "start"
     /\ signalTasks[p][i].signal.payload = "announce"
     /\ signalTasks[p][i].signal.from = q}

\* C27: the step of a host that takes up an announcement of a peer for
\* which its table holds no Connection creates one Connection and begins
\* the one offer for it; the step that takes up an announcement of a peer
\* with a Connection in the table, and every such step of a guest, creates
\* nothing and begins no offer. The offers of the host to a peer, posted or
\* being prepared, are as many as the Connections it created for that peer,
\* and a guest posts no offer and creates Connections for offers only.
C27_AnnouncementAnswered ==
  [][\A p \in Peers : \A q \in Peers \ {p} :
       /\ Cardinality(AnnouncementsToHandle(p, q))'
            < Cardinality(AnnouncementsToHandle(p, q)) =>
            /\ relay' = relay
            /\ IF isHost(p) /\ peerConnections[p][q] = "none"
               THEN /\ pcCreated'[p][q] = pcCreated[p][q] + 1
                    /\ peerConnections'[p][q] # "none"
                    /\ Cardinality(GatheringFor(p, q))'
                         = Cardinality(GatheringFor(p, q)) + 1
               ELSE /\ pcCreated'[p][q] = pcCreated[p][q]
                    /\ peerConnections'[p][q] = peerConnections[p][q]
                    /\ Cardinality(GatheringFor(p, q))'
                         = Cardinality(GatheringFor(p, q))
       /\ isHost(p) =>
            Len(Bundles("offer", p, q))' + Cardinality(GatheringFor(p, q))'
              = pcCreated'[p][q]
       /\ ~isHost(p) =>
            /\ Bundles("offer", p, q)' = <<>>
            /\ pcCreated'[p][q] > pcCreated[p][q] =>
                 Cardinality(OffersToHandle(p, q))' < Cardinality(OffersToHandle(p, q))]_vars

\* C27's case: the host has fetched and taken up both announcements of the
\* second guest, the later one while it waits for the candidates of the
\* Connection it created at the first, and the first guest has taken them
\* up too: one Connection and no second offer at the host, nothing at the
\* guest.
C27_Witness ==
  /\ Len(Announcements("G2")) = 2
  /\ \A p \in PairPeers :
       /\ lastSeenSignals[p] >= 2
       /\ relay[lastSeenSignals[p]] = Signal("offer", "G2", "all", "announce")
       /\ lastSeenSignals[p] = Len(relay)
       /\ pollFetches[p] = <<>>
       /\ \A i \in 1..Len(signalTasks[p]) : signalTasks[p][i].stage = "gather"
  /\ Cardinality(GatheringFor(Host, "G2")) = 1
  /\ pcCreated[Host]["G2"] = 1
  /\ Bundles("offer", Host, "G2") = <<>>
  /\ pcCreated["G1"]["G2"] = 0


(***************************************************************************)
(* The transport events of the Connections of a room                       *)
(***************************************************************************)

\* On a deployed origin: the host and both guests have exchanged their
\* announcements, offers and answers through the relay and still poll it.
\* Every Connection is connecting, the host's channels exist and are
\* connecting, and the guests wait for the state.
InitTransport ==
  /\ NegBlank
  /\ awareness = [p \in Peers |-> LocalState(p)]
  /\ HookBlank
  /\ TimerBlank
  /\ localhost = FALSE
  /\ roomExists = TRUE
  /\ clientID = [p \in Peers |-> IF p = "H" THEN 1 ELSE IF p = "G1" THEN 2 ELSE 3]
  /\ created = [p \in Peers |-> TRUE]
  /\ destroyed = [p \in Peers |-> FALSE]
  /\ doc = [p \in Peers |-> IF isHost(p) THEN HostMeta(clientID[p]) ELSE EmptyDoc]
  /\ lastAppliedIndex = [p \in Peers |-> 0]
  /\ initialGameState = [p \in Peers |-> IF isHost(p) THEN "S0" ELSE "none"]
  /\ broadcastChannel = [p \in Peers |-> FALSE]
  /\ useLocalFallback = [p \in Peers |-> FALSE]
  /\ updateHandler = [p \in Peers |-> FALSE]
  /\ stateRequestTimer = [p \in Peers |-> FALSE]
  /\ connectedPeers = [p \in Peers |-> {}]
  /\ peerConnections =
       [p \in Peers |-> [q \in Peers |->
          IF isHost(p) # isHost(q) THEN "connecting" ELSE "none"]]
  /\ dataChannels =
       [p \in Peers |-> [q \in Peers |->
          IF isHost(p) /\ ~isHost(q) THEN "connecting" ELSE "none"]]
  /\ pollingInterval = [p \in Peers |-> TRUE]
  /\ onActionLog = [p \in Peers |-> <<>>]
  /\ stateReceived = [p \in Peers |-> <<>>]
  /\ connectionChange = [p \in Peers |-> 1]
  /\ playersChange = [p \in Peers |-> Roster(p, {})]
  /\ channelQueue = [pr \in Pairs |-> <<>>]
  /\ broadcastQueue = [pr \in Pairs |-> <<>>]
  /\ startPollingPc = [p \in Peers |-> "done"]
  /\ lookupCount = [p \in Peers |-> 0]
  /\ pollFetches = [p \in Peers |-> <<>>]
  /\ signalTasks = [p \in Peers |-> <<>>]
  /\ announcePc = [p \in Peers |-> IF isHost(p) THEN "none" ELSE "done"]
  /\ gatherTimers = [p \in Peers |-> 0]
  /\ lastSeenSignals = [p \in Peers |-> 6]
  /\ relay = <<Signal("offer", "G1", "all", "announce"),
               Signal("offer", "G2", "all", "announce"),
               Signal("offer", "H", "G1", "sdp"),
               Signal("offer", "H", "G2", "sdp"),
               Signal("answer", "G1", "H", "sdp"),
               Signal("answer", "G2", "H", "sdp")>>
  /\ ctxPc = [p \in Peers |-> "inRoom"]
  /\ connectionState = [p \in Peers |-> "connected"]
  /\ role = [p \in Peers |-> IF isHost(p) THEN "host" ELSE "guest"]
  /\ roomCode = [p \in Peers |-> TRUE]
  /\ players = [p \in Peers |-> Roster(p, {})]
  /\ error = [p \in Peers |-> FALSE]
  /\ initialState = [p \in Peers |-> "none"]
  /\ providerRef = [p \in Peers |-> TRUE]
  /\ joinAttempt = [p \in Peers |-> 0]
  /\ leftRoom = [p \in Peers |-> FALSE]
  /\ waitingForState = [p \in Peers |-> ~isHost(p)]
  /\ waitTimer = [p \in Peers |-> ~isHost(p)]

\* pc.onconnectionstatechange at p with 'connected' for a Connection to q
\* that a 'disconnected' had dropped from the table: connectivity is back.
\* The same handler runs: the peer joins the connected set,
\* updateConnectionStatus() notifies and stopPollingIfConnected() stops the
\* polling; the table gets nothing back.
PcReconnected(p, q) ==
  /\ ~destroyed[p]
  /\ detached[p][q].pc = "disconnected"
  /\ detached' = [detached EXCEPT ![p][q].pc = "connected"]
  /\ connectedPeers' = [connectedPeers EXCEPT ![p] = @ \cup {q}]
  /\ connectionChange' =
       [connectionChange EXCEPT ![p] = Cardinality(connectedPeers[p] \cup {q}) + 1]
  /\ playersChange' = [playersChange EXCEPT ![p] = Roster(p, connectedPeers[p] \cup {q})]
  /\ connectionState' = [connectionState EXCEPT ![p] = "connected"]
  /\ players' = [players EXCEPT ![p] = Roster(p, connectedPeers[p] \cup {q})]
  /\ pollingInterval' = [pollingInterval EXCEPT ![p] = FALSE]
  /\ UNCHANGED <<localhost, roomExists, clientID, created, destroyed, doc,
                 lastAppliedIndex, initialGameState, broadcastChannel,
                 useLocalFallback, updateHandler, stateRequestTimer,
                 peerConnections, dataChannels, onActionLog, stateReceived,
                 channelQueue, broadcastQueue, lifeVars, ctxPc, role, roomCode,
                 error, initialState, providerRef, joinAttempt, leftRoom, waitingForState,
                 waitTimer, awareness, hookVars, timerVars, pendingIceCandidates, appliedCandidates,
                 pcCreated, negotiationErrors, uncaught, outgoingIceCandidates,
                 gathered>>

\* channel.onopen at p for the channel that createDataChannel made on a
\* Connection to q dropped from the table since: syncDocument(q) looks the
\* channel up in the table, and a guest sends its state-request on the
\* channel that opened.
DetachedChannelOpen(p, q) ==
  /\ ~destroyed[p]
  /\ detached[p][q].pc = "connected"
  /\ detached[p][q].channel = "connecting"
  /\ detached' = [detached EXCEPT ![p][q].channel = "open"]
  /\ channelQueue' =
       [channelQueue EXCEPT ![<<p, q>>] =
          @ \o OnOpen(p, SyncDocument(p, ReadyOpen(dataChannels[p][q])))]
  /\ UNCHANGED <<localhost, roomExists, clientID, created, destroyed, doc,
                 lastAppliedIndex, initialGameState, broadcastChannel,
                 useLocalFallback, updateHandler, stateRequestTimer, connectedPeers,
                 peerConnections, dataChannels, pollingInterval, onActionLog,
                 stateReceived, connectionChange, playersChange, broadcastQueue,
                 lifeVars, ctxVars, awareness, hookVars, timerVars, pendingIceCandidates,
                 appliedCandidates, pcCreated, negotiationErrors, uncaught,
                 outgoingIceCandidates, gathered>>

\* The Connections of the room become connected, lose connectivity and get
\* it back, and their channels open and carry the first messages.
NextTransport ==
  \/ \E p, q \in Peers : PcConnected(p, q)
  \/ \E p, q \in Peers : OnDataChannel(p, q)
  \/ \E p, q \in Peers : ChannelOpen(p, q)
  \/ \E p, q \in Peers : ChannelMessage(p, q)
  \/ \E p, q \in Peers : PcDisconnected(p, q)
  \/ \E p, q \in Peers : PcReconnected(p, q)
  \/ \E p, q \in Peers : DetachedChannelOpen(p, q)

SpecTransport == InitTransport /\ [][NextTransport]_vars

\* The Connection of p to q reaches 'connected' in the step.
ReachesConnected(p, q) ==
  \/ peerConnections[p][q] # "connected" /\ peerConnections'[p][q] = "connected"
  \/ detached[p][q].pc # "connected" /\ detached'[p][q].pc = "connected"

\* C28: when a Connection reaches 'connected', its peer is in the connected
\* set, onConnectionChange has been called with the size of the set plus
\* one, and onPlayersChange with a roster of that length that begins with
\* the local player and lists the connected peers after it.
C28_ConnectedNotified ==
  [][\A p \in Peers : \A q \in Peers \ {p} :
       ReachesConnected(p, q) =>
         /\ q \in connectedPeers'[p]
         /\ connectionChange'[p] = Cardinality(connectedPeers'[p]) + 1
         /\ Len(playersChange'[p]) = connectionChange'[p]
         /\ playersChange'[p][1] = p
         /\ Range(Tail(playersChange'[p])) = connectedPeers'[p]]_vars

\* C28's case: the host's Connections to both guests have reached
\* 'connected', and the observers were told of three peers, the host first.
C28_Witness ==
  /\ peerConnections[Host]["G1"] = "connected"
  /\ peerConnections[Host]["G2"] = "connected"
  /\ connectedPeers[Host] = {"G1", "G2"}
  /\ connectionChange[Host] = 3
  /\ playersChange[Host] = <<"H", "G1", "G2">>


\* The Connection of p to q reaches 'disconnected' or 'failed' in the step:
\* a live provider's table loses it.
ReachesDisconnected(p, q) ==
  /\ ~destroyed'[p]
  /\ peerConnections[p][q] # "none"
  /\ peerConnections'[p][q] = "none"

\* C29: when a Connection reaches 'disconnected' or 'failed', its peer is
\* in none of the connected set, the Connection table and the channel
\* table, the observers have been told the count and the roster without
\* it, and loopback becomes active in the step if and only if the provider
\* holds a loopback channel and loopback was not active.
C29_DisconnectedDropped ==
  [][\A p \in Peers : \A q \in Peers \ {p} :
       ReachesDisconnected(p, q) =>
         /\ q \notin connectedPeers'[p]
         /\ connectedPeers'[p] = connectedPeers[p] \ {q}
         /\ \A r \in Peers \ {q} : peerConnections'[p][r] = peerConnections[p][r]
         /\ dataChannels'[p][q] = "none"
         /\ connectionChange'[p] = Cardinality(connectedPeers[p] \ {q}) + 1
         /\ Len(playersChange'[p]) = connectionChange'[p]
         /\ q \notin Range(playersChange'[p])
         /\ (useLocalFallback'[p] /\ ~useLocalFallback[p])
              <=> (broadcastChannel[p] /\ ~useLocalFallback[p])]_vars

\* C29's case: the host was connected to both guests and its Connection to
\* the first has been lost: the tables hold nothing for that guest, the
\* observers were told of two peers, and no loopback is active, the
\* provider holding no loopback channel.
C29_Witness ==
  /\ detached[Host]["G1"].pc = "disconnected"
  /\ detached[Host]["G1"].channel = "open"
  /\ connectedPeers[Host] = {"G2"}
  /\ peerConnections[Host]["G1"] = "none"
  /\ dataChannels[Host]["G1"] = "none"
  /\ connectionChange[Host] = 2
  /\ playersChange[Host] = <<"H", "G2">>
  /\ ~broadcastChannel[Host] /\ ~useLocalFallback[Host]


\* The channel of p to q opens in the step: the one the table holds, or the
\* one of a Connection dropped from the table.
ChannelOpens(p, q) ==
  \/ dataChannels[p][q] \in {"connecting", "announced"} /\ dataChannels'[p][q] = "open"
  \/ /\ detached[p][q].pc = "connected"
     /\ detached[p][q].channel = "connecting"
     /\ detached'[p][q].channel = "open"

\* C30: when the channel of a peer to another opens, the peer sends on it
\* one sync message with the full encoding of its document, then one
\* presence message with its own presence record, and then, if it is a
\* guest, one state-request; a host sends no state-request.
C30_OpenSends ==
  [][\A p \in Peers : \A q \in Peers \ {p} :
       ChannelOpens(p, q) =>
         channelQueue'[<<p, q>>] =
           channelQueue[<<p, q>>]
             \o <<Message("sync", p, EncodeStateAsUpdate(doc[p]), "none"),
                  AwarenessMessage(p, awareness[p])>>
             \o (IF isHost(p) THEN <<>>
                 ELSE <<Message("state-request", p, {}, "none")>>)]_vars


(***************************************************************************)
(* state-sync forwarded to onStateReceived                                 *)
(***************************************************************************)

\* p takes the oldest frame of the direct channel from q, a state-sync.
ChannelStateSync(p, q) ==
  /\ dataChannels[p][q] = "open"
  /\ channelQueue[<<q, p>>] # <<>>
  /\ Head(channelQueue[<<q, p>>]).type = "state-sync"
  /\ channelQueue'[<<q, p>>] = Tail(channelQueue[<<q, p>>])

\* p takes the oldest loopback message of q, a state-sync.
BroadcastStateSync(p, q) ==
  /\ broadcastChannel[p]
  /\ broadcastQueue[<<q, p>>] # <<>>
  /\ Head(broadcastQueue[<<q, p>>]).type = "state-sync"
  /\ broadcastQueue'[<<q, p>>] = Tail(broadcastQueue[<<q, p>>])

\* C31: every step in which a peer receives a state-sync, on a direct
\* channel or on the loopback channel, appends the payload of that message
\* to the payloads handed to onStateReceived, whatever was handed over
\* before; the receiver is a guest, the only role that is sent one.
C31_EachForwarded ==
  [][\A p \in Peers : \A q \in Peers \ {p} :
       /\ ChannelStateSync(p, q) =>
            /\ ~isHost(p)
            /\ stateReceived'[p] =
                 Append(stateReceived[p], Head(channelQueue[<<q, p>>]).state)
       /\ BroadcastStateSync(p, q) =>
            /\ ~isHost(p)
            /\ stateReceived'[p] =
                 Append(stateReceived[p], Head(broadcastQueue[<<q, p>>]).state)]_vars

\* C31's case: on loopback the host answered the state-requests of both
\* guests with the same snapshot, a guest has received both state-syncs and
\* its onStateReceived was invoked twice with that payload.
C31_Witness ==
  \E q \in Guests :
    /\ localhost
    /\ broadcastQueue[<<Host, q>>] = <<>>
    /\ \A r \in Guests : ~stateRequestTimer[r] /\ broadcastQueue[<<r, Host>>] = <<>>
    /\ stateReceived[q] = <<"S0", "S0">>


(***************************************************************************)
(* useMultiplayerSync: loading the initial state                           *)
(***************************************************************************)

\* How many states the game accepts from the effect of one hook in a run.
MaxLoads == 2

\* A mutant of the effect's guards: initialStateLoadedRef is not consulted.
EffectLoadsAgain(p) == initialState[p] # "none" /\ role[p] # "host"

\* The effect goes on to game.loadState: the context holds an initial state,
\* none was loaded before, and the context is no host.
EffectLoads(p) ==
  /\ initialState[p] # "none" /\ ~initialStateLoadedRef[p]
  /\ role[p] # "host"

\* The effect of useMultiplayerSync that loads the initial state, run by
\* React after a render in which initialState, isHost or game changed.
\* success is what game.loadState returns.
InitialStateEffect(p, success) ==
  /\ EffectLoads(p)
  /\ Len(loadedStates[p]) < MaxLoads
  /\ IF success
     THEN /\ loadedStates' = [loadedStates EXCEPT ![p] = Append(@, initialState[p])]
          /\ initialStateLoadedRef' = [initialStateLoadedRef EXCEPT ![p] = TRUE]
          /\ UNCHANGED modalVars
     ELSE UNCHANGED hookVars
  /\ UNCHANGED <<provVars, lifeVars, ctxVars, negVars, awareness, timerVars>>

\* A connected room whose guests' state-requests are under way while the
\* game replaces or clears the host's snapshot and the hooks' effects run.
NextBootstrap ==
  \/ \E p \in Peers, s \in SnapshotValues : UpdateGameState(p, s)
  \/ \E p \in Peers : StateRequestTimer(p)
  \/ \E p, q \in Peers : BroadcastReceive(p, q)
  \/ \E p, q \in Peers : ChannelMessage(p, q)
  \/ \E p \in Peers, ok \in BOOLEAN : InitialStateEffect(p, ok)

SpecBootstrap == InitSnapshot /\ [][NextBootstrap]_vars

\* C32: the game of a peer has accepted at most one initial state from the
\* hook, the game of the host none, and once a state was accepted no later
\* step (a later state-sync and the effect run it causes included) makes
\* the game accept another.
C32_BootstrapOnce ==
  /\ [](\A p \in Peers :
          /\ Len(loadedStates[p]) <= 1
          /\ isHost(p) => loadedStates[p] = <<>>)
  /\ [][\A p \in Peers :
          initialStateLoadedRef[p] => loadedStates'[p] = loadedStates[p]]_vars

\* C32's case: a guest loaded the snapshot S0 of the first state-sync, a
\* second state-sync with the snapshot S1 has since reached its context, and
\* the game still holds only S0.
C32_Witness ==
  \E q \in Guests :
    /\ stateReceived[q] = <<"S0", "S1">>
    /\ initialState[q] = "S1"
    /\ initialStateLoadedRef[q]
    /\ loadedStates[q] = <<"S0">>


(***************************************************************************)
(* The position of merged entries in the log                               *)
(***************************************************************************)

\* p merges the document update of the oldest message q sent it, on the
\* loopback channel or on the direct channel.
MergesFrom(p, q) ==
  \/ /\ broadcastChannel[p] /\ useLocalFallback[p]
     /\ broadcastQueue[<<q, p>>] # <<>>
     /\ Head(broadcastQueue[<<q, p>>]).type \in {"sync", "update"}
     /\ broadcastQueue'[<<q, p>>] = Tail(broadcastQueue[<<q, p>>])
  \/ /\ dataChannels[p][q] = "open"
     /\ channelQueue[<<q, p>>] # <<>>
     /\ Head(channelQueue[<<q, p>>]).type \in {"sync", "update"}
     /\ channelQueue'[<<q, p>>] = Tail(channelQueue[<<q, p>>])

\* C33: a step in which a peer merges a remote update leaves every entry of
\* its log at its index: the log before the merge is a prefix of the log
\* after it, so the new entries lie at or above the length before.
C33_MergeAppends ==
  [][\A p \in Peers : \A q \in Peers \ {p} :
       MergesFrom(p, q) =>
         /\ Len(OpsOf(doc'[p])) >= Len(OpsOf(doc[p]))
         /\ SubSeq(OpsOf(doc'[p]), 1, Len(OpsOf(doc[p]))) = OpsOf(doc[p])]_vars


(***************************************************************************)
(* The signals of one poll response                                        *)
(***************************************************************************)

\* The tasks of p in a stage: "next" (its signal waits for the ones before
\* it in its response), "start" (handleSignal may run) or "gather".
TasksIn(p, stage) == SelectSeq(signalTasks[p], LAMBDA t : t.stage = stage)

\* The handlers of p that are due or under way.
Underway(p) == Len(TasksIn(p, "start")) + Len(TasksIn(p, "gather"))

\* C34: a signal of a response leaves the waiting ones only by being
\* started: a step takes at most one signal out of those that wait, and
\* the handler that ended in the step, normally or with an error, is
\* replaced by the handler of that signal.
C34_NoneSkipped ==
  [][\A p \in PairPeers :
       Len(TasksIn(p, "next"))' < Len(TasksIn(p, "next")) =>
         /\ Len(TasksIn(p, "next"))' = Len(TasksIn(p, "next")) - 1
         /\ Underway(p)' >= Underway(p)]_vars


(***************************************************************************)
(* Late events of a Connection that the table no longer holds              *)
(***************************************************************************)

\* pc.onconnectionstatechange at p with 'failed' for a Connection to q that
\* was dropped from the table at 'disconnected': the handler works on the
\* entries under q's id, whichever Connection they belong to. A Connection
\* that the table held under that id is dropped unclosed in its turn.
DetachedPcFailed(p, q) ==
  /\ ~destroyed[p]
  /\ detached[p][q].pc = "disconnected"
  /\ connectedPeers' = [connectedPeers EXCEPT ![p] = @ \ {q}]
  /\ peerConnections' = [peerConnections EXCEPT ![p][q] = "none"]
  /\ dataChannels' = [dataChannels EXCEPT ![p][q] = "none"]
  /\ detached' =
       [detached EXCEPT ![p][q] =
          IF peerConnections[p][q] # "none"
          THEN [pc |-> peerConnections[p][q], channel |-> dataChannels[p][q]]
          ELSE [@ EXCEPT !.pc = "failed"]]
  /\ connectionChange' =
       [connectionChange EXCEPT ![p] = Cardinality(connectedPeers[p] \ {q}) + 1]
  /\ playersChange' = [playersChange EXCEPT ![p] = Roster(p, connectedPeers[p] \ {q})]
  /\ connectionState' = [connectionState EXCEPT ![p] = "connected"]
  /\ players' = [players EXCEPT ![p] = Roster(p, connectedPeers[p] \ {q})]
  /\ IF FallsBack(p)
     THEN /\ useLocalFallback' = [useLocalFallback EXCEPT ![p] = TRUE]
          /\ updateHandler' = [updateHandler EXCEPT ![p] = TRUE]
          /\ stateRequestTimer' = [stateRequestTimer EXCEPT ![p] = ~isHost(p)]
          /\ broadcastQueue' =
               BroadcastPost(broadcastQueue, p, <<Message("awareness", p, {}, "none")>>)
     ELSE UNCHANGED <<useLocalFallback, updateHandler, stateRequestTimer, broadcastQueue>>
  /\ UNCHANGED <<localhost, roomExists, clientID, created, destroyed, doc,
                 lastAppliedIndex, initialGameState, broadcastChannel,
                 pollingInterval, onActionLog, stateReceived, channelQueue,
                 lifeVars, ctxPc, role, roomCode, error, initialState, providerRef,
                 joinAttempt, leftRoom, waitingForState, waitTimer, awareness, hookVars, timerVars,
                 pendingIceCandidates, appliedCandidates, pcCreated,
                 negotiationErrors, uncaught, outgoingIceCandidates, gathered>>

\* channel.onclose at p for the channel of a Connection to q that was
\* dropped from the table: this.dataChannels.delete(q).
DetachedChannelClose(p, q) ==
  /\ ~destroyed[p]
  /\ detached[p][q].channel \in {"connecting", "announced", "open"}
  /\ detached' = [detached EXCEPT ![p][q].channel = "closed"]
  /\ dataChannels' = [dataChannels EXCEPT ![p][q] = "none"]
  /\ UNCHANGED <<localhost, roomExists, clientID, created, destroyed, doc,
                 lastAppliedIndex, initialGameState, broadcastChannel,
                 useLocalFallback, updateHandler, stateRequestTimer, connectedPeers,
                 peerConnections, pollingInterval, onActionLog, stateReceived,
                 connectionChange, playersChange, channelQueue, broadcastQueue,
                 lifeVars, ctxVars, awareness, hookVars, timerVars, pendingIceCandidates,
                 appliedCandidates, pcCreated, negotiationErrors, uncaught,
                 outgoingIceCandidates, gathered>>

\* How many Connections are lost in a run of SpecSupersede.
MaxLosses == 1

\* The Connections dropped from a table unclosed so far.
Losses == Cardinality({pr \in Pairs : detached[pr[1]][pr[2]] # NoConnection})

\* The Connection of p to q is lost.
LosesConnection(p, q) == Losses < MaxLosses /\ PcDisconnected(p, q)

\* A host whose polls overlap and a guest, so that the host is handed the
\* guest's announcement twice, while the host loses a Connection and its
\* browser goes on reporting the events of the one dropped.
NextSupersede ==
  \/ \E p \in PairPeers : AnnounceArrives(p)
  \/ PollTickOverlap(Host)
  \/ \E p \in PairPeers \ {Host} : PollTick(p)
  \/ \E p \in PairPeers : PollResponse(p, TRUE)
  \/ \E p \in PairPeers : HandleSignal(p)
  \/ \E p \in PairPeers : GatherDone(p, TRUE)
  \/ \E p, q \in PairPeers : PcConnected(p, q)
  \/ \E q \in PairPeers : LosesConnection(Host, q)
  \/ \E q \in PairPeers : DetachedPcFailed(Host, q)
  \/ \E q \in PairPeers : DetachedChannelClose(Host, q)

SpecSupersede == InitNegotiate /\ [][NextSupersede]_vars

\* C35: an event of a Connection dropped from the table, or of its
\* channel, that arrives while the table holds another Connection for the
\* same peer leaves that peer's entries in the Connection table, in the
\* channel table and in the connected set as they are.
C35_SupersededHarmless ==
  [][\A p \in PairPeers : \A q \in PairPeers \ {p} :
       (/\ peerConnections[p][q] # "none"
        /\ DetachedPcFailed(p, q) \/ DetachedChannelClose(p, q))
         => /\ peerConnections'[p][q] = peerConnections[p][q]
            /\ dataChannels'[p][q] = dataChannels[p][q]
            /\ (q \in connectedPeers'[p]) = (q \in connectedPeers[p])]_vars


(***************************************************************************)
(* leaveRoom() against createRoom / joinRoom in flight                     *)
(***************************************************************************)

\* leaveRoom() called while createRoom or joinRoom is suspended at one of its
\* awaits: providerRef.current is still null, so nothing is destroyed, the
\* context values are reset, and the suspended call goes on from where it is.
LeaveRoomInFlight(p) ==
  /\ ctxPc[p] \in {"createFetch", "joinFetch", "joinSleep", "announce"}
  /\ LeaveRoomBody(p)
  /\ UNCHANGED <<ctxPc, waitingForState, waitTimer>>
  /\ UNCHANGED negVars

\* A host and a guest, on localhost or on a deployed origin: createRoom and
\* joinRoom step by step, and leaveRoom() at any moment of them or after.
NextContext ==
  \/ \E p \in PairPeers : CreateRoomCall(p)
  \/ \E p \in PairPeers, ok \in BOOLEAN : CreateRoomResponse(p, ok)
  \/ \E p \in PairPeers : JoinRoomCall(p)
  \/ \E p \in PairPeers, o \in {"ok", "notfound", "error"}, d \in BOOLEAN :
       JoinLookupResponse(p, o, d)
  \/ \E p \in PairPeers : JoinRetry(p)
  \/ \E p \in PairPeers : AnnounceResponse(p)
  \/ \E p \in PairPeers : StateRequestTimer(p)
  \/ \E p, q \in PairPeers : BroadcastReceive(p, q)
  \/ \E p \in PairPeers : LeaveRoomInFlight(p)
  \/ \E p \in PairPeers : LeaveRoom(p)
  \/ \E p \in PairPeers : WaitTimeout(p)

SpecContext == InitLife /\ [][NextContext]_vars

\* C36: once leaveRoom() has run, the context records no provider, no
\* provider of the context is left running undestroyed, and the context is
\* not 'connected', whatever createRoom / joinRoom call was in flight.
C36_NoneAfterLeave ==
  \A p \in PairPeers :
    leftRoom[p] =>
      /\ ~providerRef[p]
      /\ ~(created[p] /\ ~destroyed[p])
      /\ connectionState[p] # "connected"


(***************************************************************************)
(* connect() during the host's room lookups: the polling timers            *)
(***************************************************************************)

\* connect() called on a live host provider while its startPolling is still
\* in the room-lookup loop: the notifications, then startSignalPolling(),
\* which finds this.pollingInterval unset and starts a second startPolling.
\* At most two startPolling run at a time here.
ConnectDuringLookup(p) ==
  /\ created[p] /\ ~destroyed[p]
  /\ isHost(p)
  /\ ~localhost
  /\ startPollingPc[p] \in {"fetch", "sleep"}
  /\ secondLoop[p].pc = "none"
  /\ ~pollingInterval[p]
  /\ secondLoop' = [secondLoop EXCEPT ![p] = [pc |-> "fetch", count |-> 0]]
  /\ connectionChange' = [connectionChange EXCEPT ![p] = 1]
  /\ playersChange' = [playersChange EXCEPT ![p] = Roster(p, connectedPeers[p])]
  /\ connectionState' = [connectionState EXCEPT ![p] = "connected"]
  /\ players' = [players EXCEPT ![p] = Roster(p, connectedPeers[p])]
  /\ UNCHANGED <<localhost, roomExists, clientID, created, destroyed, doc,
                 lastAppliedIndex, initialGameState, broadcastChannel,
                 useLocalFallback, updateHandler, stateRequestTimer,
                 connectedPeers, peerConnections, dataChannels, pollingInterval,
                 onActionLog, stateReceived, channelQueue, broadcastQueue,
                 lifeVars, ctxPc, role, roomCode, error, initialState, providerRef,
                 joinAttempt, leftRoom, waitingForState, waitTimer, negVars,
                 awareness, hookVars, orphanTimers>>

\* The second startPolling at the response of a room lookup.
SecondLookupResponse(p, ok) ==
  /\ secondLoop[p].pc = "fetch"
  /\ IF ok
     THEN /\ SetInterval(p)
          /\ secondLoop' = [secondLoop EXCEPT ![p] = NoLoop]
     ELSE /\ secondLoop' = [secondLoop EXCEPT ![p] = [pc |-> "sleep", count |-> @.count + 1]]
          /\ UNCHANGED <<pollingInterval, pollFetches, orphanTimers>>
  /\ UNCHANGED <<localhost, roomExists, clientID, created, destroyed, doc,
                 lastAppliedIndex, initialGameState, broadcastChannel,
                 useLocalFallback, updateHandler, stateRequestTimer,
                 connectedPeers, peerConnections, dataChannels, onActionLog,
                 stateReceived, connectionChange, playersChange, channelQueue,
                 broadcastQueue, startPollingPc, lookupCount, signalTasks,
                 announcePc, gatherTimers, lastSeenSignals, relay, ctxVars>>
  /\ UNCHANGED <<negVars, awareness, hookVars>>

\* The second startPolling after the 500 ms wait that follows a failed
\* lookup: the next lookup, or the end of the loop.
SecondLookupSleep(p) ==
  /\ secondLoop[p].pc = "sleep"
  /\ IF secondLoop[p].count = LookupAttempts
     THEN /\ SetInterval(p)
          /\ secondLoop' = [secondLoop EXCEPT ![p] = NoLoop]
     ELSE /\ secondLoop' = [secondLoop EXCEPT ![p] = [pc |-> "fetch", count |-> @.count]]
          /\ UNCHANGED <<pollingInterval, pollFetches, orphanTimers>>
  /\ UNCHANGED <<localhost, roomExists, clientID, created, destroyed, doc,
                 lastAppliedIndex, initialGameState, broadcastChannel,
                 useLocalFallback, updateHandler, stateRequestTimer,
                 connectedPeers, peerConnections, dataChannels, onActionLog,
                 stateReceived, connectionChange, playersChange, channelQueue,
                 broadcastQueue, startPollingPc, lookupCount, signalTasks,
                 announcePc, gatherTimers, lastSeenSignals, relay, ctxVars>>
  /\ UNCHANGED <<negVars, awareness, hookVars>>

\* A host and a guest on a deployed origin or on localhost, from before the
\* room exists: connect() is called on the host again during its room
\* lookups and after them, the peers negotiate and connect, and the host's
\* provider is destroyed at any moment.
NextTimers ==
  \/ \E p \in PairPeers : CreateRoomCall(p)
  \/ \E p \in PairPeers : CreateRoomResponse(p, TRUE)
  \/ \E p \in PairPeers : JoinRoomCall(p)
  \/ \E p \in PairPeers : JoinLookupResponse(p, "ok", TRUE)
  \/ \E p \in PairPeers : AnnounceResponse(p)
  \/ \E p \in PairPeers, ok \in BOOLEAN : LookupResponse(p, ok)
  \/ \E p \in PairPeers : LookupSleep(p)
  \/ \E p \in PairPeers : ConnectDuringLookup(p)
  \/ \E p \in PairPeers, ok \in BOOLEAN : SecondLookupResponse(p, ok)
  \/ \E p \in PairPeers : SecondLookupSleep(p)
  \/ ConnectCall(Host)
  \/ \E p \in PairPeers : PollTick(p)
  \/ \E p \in PairPeers : PollResponse(p, TRUE)
  \/ \E p \in PairPeers : HandleSignal(p)
  \/ \E p \in PairPeers : GatherDone(p, TRUE)
  \/ \E p, q \in PairPeers : PcConnected(p, q)
  \/ Destroy(Host)

SpecTimers == InitLife /\ [][NextTimers]_vars

\* The polling intervals of p that run: the one this.pollingInterval holds
\* and those whose handle was overwritten.
ActiveTimers(p) == (IF pollingInterval[p] THEN 1 ELSE 0) + orphanTimers[p]

\* C37: a provider never has more than one polling interval running, and
\* every running interval is the one held in this.pollingInterval, which
\* stopPollingIfConnected and destroy() clear.
C37_OneTimer ==
  \A p \in PairPeers :
    /\ ActiveTimers(p) <= 1
    /\ orphanTimers[p] = 0


(***************************************************************************)
(* The outgoing candidate buffer across Connections for one peer           *)
(***************************************************************************)

\* A host and a guest that negotiate through the relay while the host's
\* Connection gathers candidates; two polls of the host may overlap, and
\* the host's Connection may be lost and a new one created for the guest.
NextCandidates ==
  \/ \E p \in PairPeers : AnnounceArrives(p)
  \/ PollTickOverlap(Host)
  \/ \E p \in PairPeers \ {Host} : PollTick(p)
  \/ \E p \in PairPeers : PollResponse(p, TRUE)
  \/ \E p \in PairPeers : HandleSignal(p)
  \/ \E q \in PairPeers : IceCandidate(Host, q)
  \/ \E p \in PairPeers : GatherDone(p, TRUE)
  \/ \E p, q \in PairPeers : PcConnected(p, q)
  \/ \E q \in PairPeers : LosesConnection(Host, q)

SpecCandidates == InitNegotiate /\ [][NextCandidates]_vars

\* C38: an offer or an answer posted for a peer carries only candidates
\* that the Connection it describes has gathered, and once the table holds
\* no Connection for a peer the outgoing buffer for that peer is empty.
C38_OwnCandidates ==
  [][/\ \A p, q \in PairPeers :
          peerConnections'[p][q] = "none" => outgoingIceCandidates'[p][q] = <<>>
     /\ (Len(relay') = Len(relay) + 1 /\ relay'[Len(relay')].payload = "sdp") =>
          LET s == relay'[Len(relay')]
          IN Range(s.candidates) \subseteq Range(gathered[s.from][s.to])]_vars


(***************************************************************************)
(* Loopback traffic comes to rest                                          *)
(***************************************************************************)

\* How many actions are dispatched in the room that is followed to rest.
MaxLoopbackOps == 2

\* The peers on localhost from before the room exists.
InitQuiesce ==
  /\ localhost = TRUE
  /\ clientID = [p \in Peers |-> IF p = "H" THEN 1 ELSE IF p = "G1" THEN 2 ELSE 3]
  /\ Blank

\* dispatchAction while fewer than MaxLoopbackOps actions were dispatched.
DispatchBounded(p, type) ==
  /\ TotalOps < MaxLoopbackOps
  /\ Dispatch(p, type)

\* A host and a guest: the room is created and joined, actions are
\* dispatched at any moment, and the loopback messages are delivered.
NextQuiesce ==
  \/ \E p \in PairPeers : CreateRoomCall(p)
  \/ \E p \in PairPeers : CreateRoomResponse(p, TRUE)
  \/ \E p \in PairPeers : JoinRoomCall(p)
  \/ \E p \in PairPeers : JoinLookupResponse(p, "ok", TRUE)
  \/ \E p \in PairPeers, t \in ActionTypes : DispatchBounded(p, t)
  \/ \E p \in PairPeers : StateRequestTimer(p)
  \/ \E p, q \in PairPeers : BroadcastReceive(p, q)

\* Weak fairness of BroadcastReceive(p, q), with its enabling condition
\* (an open channel and a message from q waiting) written out.
DeliveryFair(p, q) ==
  \/ []<>(~(broadcastChannel[p] /\ broadcastQueue[<<q, p>>] # <<>>))
  \/ []<><<BroadcastReceive(p, q)>>_vars

\* The event loop runs every pending timer and delivers every posted message.
SpecQuiesce ==
  /\ InitQuiesce
  /\ [][NextQuiesce]_vars
  /\ \A p \in PairPeers : WF_vars(StateRequestTimer(p))
  /\ \A p \in PairPeers : \A q \in PairPeers \ {p} : DeliveryFair(p, q)

\* No loopback message is in flight.
Quiet == \A pr \in Pairs : broadcastQueue[pr] = <<>>

\* The messages of the given type that p has posted for r and r has not
\* handled yet.
Posted(p, r, type) == SelectSeq(broadcastQueue[<<p, r>>], LAMBDA m : m.type = type)

\* C39: loopback traffic comes to rest. Handling an update that arrived on
\* loopback posts nothing; handling a presence message posts at most one
\* presence message per receiver, and only if the sender was not known
\* before; and with finitely many dispatches the queues end up empty for
\* good.
C39_Quiesces ==
  /\ [][\A p, q \in Peers :
          (broadcastQueue[<<q, p>>] # <<>> /\ BroadcastReceive(p, q)) =>
            LET msg == Head(broadcastQueue[<<q, p>>])
            IN \A r \in Peers \ {p} :
                 /\ msg.type \in {"sync", "update"} =>
                      broadcastQueue'[<<p, r>>] = broadcastQueue[<<p, r>>]
                 /\ Len(Posted(p, r, "awareness"))' <= Len(Posted(p, r, "awareness")) + 1
                 /\ Len(Posted(p, r, "awareness"))' > Len(Posted(p, r, "awareness")) =>
                      msg.type = "awareness" /\ q \notin connectedPeers[p]
                 /\ Len(Posted(p, r, "update"))' = Len(Posted(p, r, "update"))]_vars
  /\ <>[]Quiet

\* C39's case: host and guest have seen and acknowledged each other, each
\* dispatched an action that the other merged from loopback, and no message
\* is in flight.
C39_Witness ==
  /\ Quiet
  /\ \A p \in PairPeers : connectedPeers[p] = PairPeers \ {p}
  /\ \A p, q \in PairPeers : Cardinality(OwnOps(doc[p], q)) = 1


(***************************************************************************)
(* ShareModal: the effect that creates the room                            *)
(***************************************************************************)

\* How many createRoom calls of the dialog are followed.
MaxCreateCalls == 2

\* The user opens the share dialog.
OpenShareModal(p) ==
  /\ isHost(p)
  /\ ~shareOpen[p]
  /\ shareOpen' = [shareOpen EXCEPT ![p] = TRUE]
  /\ UNCHANGED <<isCreating, createCalls, initialStateLoadedRef, loadedStates>>
  /\ UNCHANGED <<provVars, lifeVars, ctxVars, negVars, awareness, timerVars>>

\* The user closes the share dialog.
CloseShareModal(p) ==
  /\ shareOpen[p]
  /\ shareOpen' = [shareOpen EXCEPT ![p] = FALSE]
  /\ UNCHANGED <<isCreating, createCalls, initialStateLoadedRef, loadedStates>>
  /\ UNCHANGED <<provVars, lifeVars, ctxVars, negVars, awareness, timerVars>>

\* if (open && !roomCode && !isCreating): the condition of ShareModal's
\* effect, which runs after every render that changed one of them.
EffectCreates(p) == shareOpen[p] /\ ~roomCode[p] /\ ~isCreating[p]

\* ShareModal's effect when its condition holds: setIsCreating(true) and
\* createRoom(...) up to its fetch of /api/room.
ShareModalEffect(p) ==
  /\ EffectCreates(p)
  /\ createCalls[p] < MaxCreateCalls
  /\ isCreating' = [isCreating EXCEPT ![p] = TRUE]
  /\ createCalls' = [createCalls EXCEPT ![p] = @ + 1]
  /\ ctxPc' = [ctxPc EXCEPT ![p] = "createFetch"]
  /\ leftRoom' = [leftRoom EXCEPT ![p] = FALSE]
  /\ connectionState' = [connectionState EXCEPT ![p] = "connecting"]
  /\ error' = [error EXCEPT ![p] = FALSE]
  /\ UNCHANGED <<provVars, lifeVars, role, roomCode, players, initialState,
                 providerRef, joinAttempt, waitingForState, waitTimer>>
  /\ UNCHANGED <<shareOpen, initialStateLoadedRef, loadedStates>>
  /\ UNCHANGED <<negVars, awareness, timerVars>>

\* The .finally of the effect's promise chain, once createRoom has returned
\* or thrown: setIsCreating(false).
CreateRoomSettled(p) ==
  /\ isCreating[p]
  /\ ctxPc[p] \in {"inRoom", "failed"}
  /\ isCreating' = [isCreating EXCEPT ![p] = FALSE]
  /\ UNCHANGED <<shareOpen, createCalls, initialStateLoadedRef, loadedStates>>
  /\ UNCHANGED <<provVars, lifeVars, ctxVars, negVars, awareness, timerVars>>

\* The host opens and closes the share dialog; the room is created or the
\* creation fails, and the provider of a created room looks its room up and
\* polls the relay.
NextShare ==
  \/ \E p \in PairPeers : OpenShareModal(p)
  \/ \E p \in PairPeers : CloseShareModal(p)
  \/ \E p \in PairPeers : ShareModalEffect(p)
  \/ \E p \in PairPeers, ok \in BOOLEAN : CreateRoomResponse(p, ok)
  \/ \E p \in PairPeers : CreateRoomSettled(p)
  \/ \E p \in PairPeers, ok \in BOOLEAN : LookupResponse(p, ok)
  \/ \E p \in PairPeers : LookupSleep(p)
  \/ \E p \in PairPeers : PollTick(p)
  \/ \E p \in PairPeers : PollResponse(p, TRUE)

SpecShare == InitLife /\ [][NextShare]_vars

\* C40: the share dialog issues createRoom only while no createRoom is in
\* flight, never after a createRoom that failed, and never once a room code
\* exists.
C40_OneCreate ==
  [][\A p \in PairPeers :
       createCalls'[p] > createCalls[p] =>
         /\ ctxPc[p] # "createFetch"
         /\ ctxPc[p] # "failed"
         /\ ~roomCode[p]]_vars

====
